---- MODULE Spec2Model ----
(***************************************************************************)
(* Secrets vault of troyonix-financial-ai: src/utils/config_utils.py       *)
(* (generate_key, encrypt_config, decrypt_config, load_config,             *)
(* save_config) and src/utils/secure_data_utils.py (derive_key,            *)
(* encrypt_data, decrypt_data, secure_save, secure_load).                  *)
(*                                                                         *)
(* Cryptography is modelled symbolically: PBKDF2, AES-CBC and HMAC are     *)
(* injective constructors, so two keys, ciphertexts or tags are equal      *)
(* exactly when they were built from equal inputs.  The base64 layer of a  *)
(* Fernet token and the JSON layer of a payload are modelled by what the   *)
(* encoder writes and what the decoder accepts.                            *)
(***************************************************************************)
EXTENDS Integers, Sequences, FiniteSets, TLC

VARIABLES
    salt_file,   \* content of {path}.salt         (<<>> when the file is absent)
    enc_file,    \* content of {path}.enc          (<<>> when the file is absent)
    plain_file,  \* content of {path}              (<<>> when the file is absent)
    env_pw,      \* os.getenv("CONFIG_PASSWORD")   (<<>> when unset)
    res,         \* what the last vault call returned or raised
    last_save,   \* history: the last save_config call that returned normally
    saves_only,  \* history: nothing but successful saves has touched the files
    tok,         \* cipher harness: the token under test (<<>> before encrypt)
    tok_src,     \* cipher harness: payload and key the token was made from
    tok_mod,     \* cipher harness: position modified in tok (0: none)
    dres,        \* cipher harness: what the last decrypt call returned or raised
    derived,     \* derive harness: the last two calls of generate_key
    sd_salt,     \* content of {filepath}.salt of secure_save (<<>> when absent)
    sd_data,     \* content of {filepath} of secure_save       (<<>> when absent)
    sd_res,      \* what the last secure_save / secure_load returned or raised
    calls,       \* error harness: the last two calls that raised
    sv,          \* step-wise save_config: where the running call is, its locals
    ld,          \* step-wise load_config: where the running call is, its locals
    gens,        \* step-wise: how many save_config calls ago each file was written
    seen,        \* step-wise history: the mixed pairs a load_config has read
    int_key,     \* os.getenv("DATA_INTEGRITY_KEY")  (<<>> when unset)
    signed,      \* integrity harness: the payload and secret last signed
    vres,        \* integrity harness: what the last verify_data_integrity did
    san,         \* redaction harness: the last sanitize_sensitive_data call
    heap,        \* the dict and list objects of the interpreter, by address
    wk,          \* step-wise sanitize_dict: the frames of the running call
    api,         \* make_api_request: where the running call is, its locals
    ov           \* save_config overlapping load_config: both calls' locals

vars == <<salt_file, enc_file, plain_file, env_pw, res, last_save, saves_only,
          tok, tok_src, tok_mod, dres, derived, sd_salt, sd_data, sd_res,
          calls, sv, ld, gens, seen, int_key, signed, vres, san, heap, wk, api, ov>>

vaultVars  == <<salt_file, enc_file, plain_file, env_pw, res, last_save, saves_only>>
cipherVars == <<tok, tok_src, tok_mod, dres>>
sdVars     == <<sd_salt, sd_data, sd_res>>
stepVars   == <<sv, ld, gens, seen>>
verifyVars == <<int_key, signed, vres>>
walkVars   == <<heap, wk>>
extVars    == <<calls, stepVars, verifyVars, san, walkVars, api, ov>>

-----------------------------------------------------------------------------
(* Bounds of the model *)

NSalts == 2       \* os.urandom(16) draws one of NSalts salts
NIVs == 1         \* os.urandom(16) inside Fernet.encrypt draws one of NIVs IVs

Salts == 1..NSalts
IVs   == 1..NIVs
\* int(time.time()) inside Fernet.encrypt.  The clock is held at one value:
\* decrypt is called without ttl, so nothing the code decides reads it.
Times == {0}

\* Password strings a caller can pass; "" is Python's empty string.
Passwords == {"", "pw", "other"}

\* An optional value: <<>> is Python's None (or an absent file), <<v>> is v.
None == <<>>
Some(v) == <<v>>

-----------------------------------------------------------------------------
(* Payloads: Python dicts with string keys, and what json does to them *)

JInt(n) == [t |-> "int", n |-> n]
JStr(s) == [t |-> "str", s |-> s]
JBool(b) == [t |-> "bool", b |-> b]
\* A Python set: a value json.dumps cannot serialize (TypeError).
PySet == [t |-> "set"]

Keys == {"a", "b"}
JsonValues == {JInt(1), JStr("1")}
PyValues == JsonValues \cup {PySet}

DictsOver(V) == UNION {[D -> V] : D \in SUBSET Keys}
\* Every dict a caller can pass, and those made of JSON values only.
Configs == DictsOver(PyValues)
JsonConfigs == DictsOver(JsonValues)

Serializable(config) == \A k \in DOMAIN config : config[k].t # "set"

\* A faulty variant: strings are written without their quotes.
JsonValueText_Unquoted(v) ==
    CASE v.t = "int"  -> <<ToString(v.n)>>
      [] v.t = "str"  -> <<v.s>>
      [] v.t = "bool" -> IF v.b THEN <<"true">> ELSE <<"false">>

\* json.dumps of one value: the characters written for it.
JsonValueText(v) ==
    CASE v.t = "int"  -> <<ToString(v.n)>>
      [] v.t = "str"  -> <<"\"", v.s, "\"">>
      [] v.t = "bool" -> IF v.b THEN <<"true">> ELSE <<"false">>

\* json.dumps(config): a well-formed object text, one member per key.
\* Defined for serializable dicts; callers test Serializable first, as
\* json.dumps raises TypeError otherwise.
JsonDumps(config) ==
    [wf |-> TRUE, body |-> [k \in DOMAIN config |-> JsonValueText(config[k])]]

\* What json.dump(config, f) leaves in f when it raises TypeError half way:
\* the members written before the unserializable one, and no closing brace.
JsonDumpPartial(config) ==
    [wf |-> FALSE,
     body |-> [k \in {j \in DOMAIN config : config[j].t # "set"} |->
                  JsonValueText(config[k])]]

\* json.loads of one value text.
JsonParseValue(t) ==
    IF Len(t) = 3 /\ t[1] = "\"" /\ t[3] = "\"" THEN JStr(t[2])
    ELSE IF t = <<"true">> THEN JBool(TRUE)
    ELSE IF t = <<"false">> THEN JBool(FALSE)
    ELSE JInt(CHOOSE n \in -9..9 : ToString(n) = t[1])

\* json.loads(text): the dict, or JSONDecodeError on text that is no object.
JsonLoads(text) ==
    IF text.wf
    THEN [ok |-> TRUE,
          value |-> Some([k \in DOMAIN text.body |-> JsonParseValue(text.body[k])]),
          exc |-> "", cause |-> ""]
    ELSE [ok |-> FALSE, value |-> None,
          exc |-> "JSONDecodeError", cause |-> "JSONDecodeError"]

-----------------------------------------------------------------------------
(* Key derivation *)

\* PBKDF2-HMAC-SHA256(password, salt, 100000 iterations), urlsafe-base64
\* encoded: a valid Fernet key that names its inputs.
PBKDF2(password, salt) == [pw |-> password, salt |-> salt]

\* A faulty variant: the supplied salt is ignored and a fresh one drawn.
generate_key_FreshSalt(password, salt, rnd) ==
    <<PBKDF2(password, rnd), rnd>>

\* generate_key(password, salt=None) / derive_key(password, salt=None);
\* rnd is what os.urandom(16) returns if it is called.
generate_key(password, salt, rnd) ==
    LET s == IF salt = None THEN rnd ELSE salt[1]
    IN  <<PBKDF2(password, s), s>>

-----------------------------------------------------------------------------
(* Fernet (cryptography.fernet), as the vault calls it.                     *)
(* A token is urlsafe_b64encode(version | timestamp | iv | ciphertext |     *)
(* hmac).  The token text is modelled as one character group per field.     *)

\* The version byte 0x80 that starts every Fernet token.
FERNET_VERSION == 128

\* AES-128-CBC with PKCS7 padding under key, and HMAC-SHA256 under key.
AESEncrypt(key, iv, data) == [k |-> key, iv |-> iv, pt |-> data]
HMAC(key, ver, ts, iv, ct) == [k |-> key, ver |-> ver, ts |-> ts, iv |-> iv, ct |-> ct]

\* A character group of the base64 text: the bits it carries (v) and how it
\* is spelled.  sp = 0 is the spelling urlsafe_b64encode writes.  sp = 1 is
\* another spelling that urlsafe_b64decode maps to the same bits: '+' for
\* '-', '/' for '_', or non-zero bits in the unused low bits of the last
\* character before the '=' padding.
B64Char(v, sp) == [v |-> v, sp |-> sp]
\* A byte outside the base64 alphabet.
B64Bad == [bad |-> TRUE]

urlsafe_b64encode(bytes) == [i \in 1..Len(bytes) |-> B64Char(bytes[i], 0)]

\* urlsafe_b64decode: binascii.Error when a character is not of the
\* alphabet (it is dropped and the length no longer fits), else the bytes.
urlsafe_b64decode(text) ==
    IF \E i \in 1..Len(text) : "bad" \in DOMAIN text[i]
    THEN [ok |-> FALSE, bytes |-> <<>>]
    ELSE [ok |-> TRUE, bytes |-> [i \in 1..Len(text) |-> text[i].v]]

\* Fernet(key).encrypt(data) at time ts with the IV iv.
FernetEncrypt(key, data, ts, iv) ==
    LET ct == AESEncrypt(key, iv, data)
    IN  urlsafe_b64encode(<<FERNET_VERSION, ts, iv, ct, HMAC(key, FERNET_VERSION, ts, iv, ct)>>)

InvalidToken == [ok |-> FALSE, data |-> None, exc |-> "InvalidToken"]

\* A faulty variant: the HMAC is not verified before decrypting.
FernetDecrypt_NoHMAC(key, token) ==
    LET dec == urlsafe_b64decode(token)
        d   == dec.bytes
    IN  IF ~dec.ok \/ Len(d) < 5 THEN InvalidToken
        ELSE IF d[1] # FERNET_VERSION THEN InvalidToken
        ELSE IF "pt" \in DOMAIN d[4] /\ d[4].k = key /\ d[4].iv = d[3]
             THEN [ok |-> TRUE, data |-> Some(d[4].pt), exc |-> ""]
        ELSE InvalidToken

\* Fernet(key).decrypt(token), no ttl: decode, check the version byte,
\* verify the HMAC over version..ciphertext, then decrypt and unpad.  Every
\* failure is InvalidToken, that of a token too short to hold the fields
\* (an empty file) among them.
FernetDecrypt(key, token) ==
    LET dec == urlsafe_b64decode(token)
        d   == dec.bytes
    IN  IF ~dec.ok \/ Len(d) < 5 THEN InvalidToken
        ELSE IF d[1] # FERNET_VERSION THEN InvalidToken
        ELSE IF d[5] # HMAC(key, d[1], d[2], d[3], d[4]) THEN InvalidToken
        ELSE IF "pt" \in DOMAIN d[4] /\ d[4].k = key /\ d[4].iv = d[3]
             THEN [ok |-> TRUE, data |-> Some(d[4].pt), exc |-> ""]
        ELSE InvalidToken

-----------------------------------------------------------------------------
(* encrypt_config / decrypt_config and encrypt_data / decrypt_data *)

\* A call's outcome: ok with a value, or an exception.  exc is the class of
\* the exception the caller sees, cause names what was raised first.
Returned(v) == [ok |-> TRUE, value |-> Some(v), exc |-> "", cause |-> ""]
Raised(exc, cause) == [ok |-> FALSE, value |-> None, exc |-> exc, cause |-> cause]

\* encrypt_config(config, key): Fernet(key).encrypt(json.dumps(config).encode())
encrypt_config(config, key, ts, iv) ==
    IF Serializable(config)
    THEN Returned(FernetEncrypt(key, JsonDumps(config), ts, iv))
    ELSE Raised("TypeError", "TypeError")

\* A faulty variant: a token that does not decrypt yields an empty dict
\* ("except InvalidToken: return {}").
decrypt_config_Swallow(encrypted_data, key) ==
    LET p == FernetDecrypt(key, encrypted_data)
    IN  IF p.ok THEN JsonLoads(p.data[1]) ELSE Returned(<<>>)

\* decrypt_config(encrypted_data, key): json.loads(Fernet(key).decrypt(...).decode())
decrypt_config(encrypted_data, key) ==
    LET p == FernetDecrypt(key, encrypted_data)
    IN  IF p.ok THEN JsonLoads(p.data[1]) ELSE Raised("InvalidToken", "InvalidToken")

\* encrypt_data(data, key): the same, every exception wrapped in SecureDataError.
encrypt_data(data, key, ts, iv) ==
    LET r == encrypt_config(data, key, ts, iv)
    IN  IF r.ok THEN r ELSE Raised("SecureDataError", r.cause)

\* decrypt_data(encrypted_data, key): the same, every exception wrapped.
decrypt_data(encrypted_data, key) ==
    LET r == decrypt_config(encrypted_data, key)
    IN  IF r.ok THEN r ELSE Raised("SecureDataError", r.cause)

-----------------------------------------------------------------------------
(* The configuration vault: load_config and save_config on one config_path *)

Truthy(password) == password # None /\ password # Some("")

LoadResult(out, reads, salt, enc, plain) ==
    [out |-> out, reads |-> reads, salt |-> salt, enc |-> enc, plain |-> plain]

\* A faulty variant: the plaintext file at {path} is preferred when it
\* exists.
load_config_PlainFirst(salt, enc, plain, envpw) ==
    IF plain # None
    THEN LET d == JsonLoads(plain[1])
         IN  LoadResult(IF d.ok THEN d ELSE Raised("ConfigError", d.cause),
                        {"plain"}, salt, enc, plain)
    ELSE IF enc = None
    THEN LoadResult(Raised("ConfigError", "FileNotFoundError"), {}, salt, enc, plain)
    ELSE IF ~Truthy(envpw)
    THEN LoadResult(Raised("ConfigError", "CONFIG_PASSWORD environment variable not set"),
                    {}, salt, enc, plain)
    ELSE IF salt = None
    THEN LoadResult(Raised("ConfigError", "Salt file not found"), {}, salt, enc, plain)
    ELSE LET key == generate_key(envpw[1], Some(salt[1]), 1)[1]
             d   == decrypt_config(enc[1], key)
         IN  LoadResult(IF d.ok THEN d ELSE Raised("ConfigError", d.cause),
                        {"salt", "enc"}, salt, enc, plain)

\* A faulty variant: the salt file is opened without the os.path.exists test.
load_config_NoSaltTest(salt, enc, plain, envpw) ==
    IF enc # None
    THEN IF ~Truthy(envpw)
         THEN LoadResult(Raised("ConfigError", "CONFIG_PASSWORD environment variable not set"),
                         {}, salt, enc, plain)
         ELSE IF salt = None
         THEN LoadResult(Raised("ConfigError", "FileNotFoundError"), {}, salt, enc, plain)
         ELSE LET key == generate_key(envpw[1], Some(salt[1]), 1)[1]
                  d   == decrypt_config(enc[1], key)
              IN  LoadResult(IF d.ok THEN d ELSE Raised("ConfigError", d.cause),
                             {"salt", "enc"}, salt, enc, plain)
    ELSE IF plain = None
    THEN LoadResult(Raised("ConfigError", "FileNotFoundError"), {}, salt, enc, plain)
    ELSE LET d == JsonLoads(plain[1])
         IN  LoadResult(IF d.ok THEN d ELSE Raised("ConfigError", d.cause),
                        {"plain"}, salt, enc, plain)

\* A faulty variant: the password is looked up after the salt and the token are read.
load_config_LatePassword(salt, enc, plain, envpw) ==
    IF enc # None
    THEN IF salt = None
         THEN LoadResult(Raised("ConfigError", "Salt file not found"), {}, salt, enc, plain)
         ELSE IF ~Truthy(envpw)
         THEN LoadResult(Raised("ConfigError", "CONFIG_PASSWORD environment variable not set"),
                         {"salt", "enc"}, salt, enc, plain)
         ELSE LET key == generate_key(envpw[1], Some(salt[1]), 1)[1]
                  d   == decrypt_config(enc[1], key)
              IN  LoadResult(IF d.ok THEN d ELSE Raised("ConfigError", d.cause),
                             {"salt", "enc"}, salt, enc, plain)
    ELSE IF plain = None
    THEN LoadResult(Raised("ConfigError", "FileNotFoundError"), {}, salt, enc, plain)
    ELSE LET d == JsonLoads(plain[1])
         IN  LoadResult(IF d.ok THEN d ELSE Raised("ConfigError", d.cause),
                        {"plain"}, salt, enc, plain)

\* A faulty variant: the legacy file is opened with mode "a+" and so created.
load_config_Creates(salt, enc, plain, envpw) ==
    IF enc # None
    THEN IF ~Truthy(envpw)
         THEN LoadResult(Raised("ConfigError", "CONFIG_PASSWORD environment variable not set"),
                         {}, salt, enc, plain)
         ELSE IF salt = None
         THEN LoadResult(Raised("ConfigError", "Salt file not found"), {}, salt, enc, plain)
         ELSE LET key == generate_key(envpw[1], Some(salt[1]), 1)[1]
                  d   == decrypt_config(enc[1], key)
              IN  LoadResult(IF d.ok THEN d ELSE Raised("ConfigError", d.cause),
                             {"salt", "enc"}, salt, enc, plain)
    ELSE IF plain = None
    THEN LoadResult(Raised("ConfigError", "JSONDecodeError"), {"plain"}, salt, enc,
                    Some([wf |-> FALSE, body |-> <<>>]))
    ELSE LET d == JsonLoads(plain[1])
         IN  LoadResult(IF d.ok THEN d ELSE Raised("ConfigError", d.cause),
                        {"plain"}, salt, enc, plain)

\* A faulty variant: a token that does not decrypt falls back to the legacy file.
load_config_Fallback(salt, enc, plain, envpw) ==
    LET legacy ==
            IF plain = None
            THEN LoadResult(Raised("ConfigError", "FileNotFoundError"), {}, salt, enc, plain)
            ELSE LET d == JsonLoads(plain[1])
                 IN  LoadResult(IF d.ok THEN d ELSE Raised("ConfigError", d.cause),
                                {"plain"}, salt, enc, plain)
    IN  IF enc # None
        THEN IF ~Truthy(envpw)
             THEN LoadResult(Raised("ConfigError", "CONFIG_PASSWORD environment variable not set"),
                             {}, salt, enc, plain)
             ELSE IF salt = None
             THEN LoadResult(Raised("ConfigError", "Salt file not found"), {}, salt, enc, plain)
             ELSE LET key == generate_key(envpw[1], Some(salt[1]), 1)[1]
                      d   == decrypt_config(enc[1], key)
                  IN  IF d.ok THEN LoadResult(d, {"salt", "enc"}, salt, enc, plain)
                      ELSE [legacy EXCEPT !.reads = @ \cup {"salt", "enc"}]
        ELSE legacy

\* load_config(config_path) with CONFIG_PASSWORD = envpw on the files
\* (salt, enc, plain): the outcome, the files whose content was read, and
\* the files afterwards.  Every exception leaves as ConfigError.
load_config(salt, enc, plain, envpw) ==
    IF enc # None
    THEN IF ~Truthy(envpw)
         THEN LoadResult(Raised("ConfigError", "CONFIG_PASSWORD environment variable not set"),
                         {}, salt, enc, plain)
         ELSE IF salt = None
         THEN LoadResult(Raised("ConfigError", "Salt file not found"), {}, salt, enc, plain)
         ELSE LET key == generate_key(envpw[1], Some(salt[1]), 1)[1]
                  d   == decrypt_config(enc[1], key)
              IN  LoadResult(IF d.ok THEN d ELSE Raised("ConfigError", d.cause),
                             {"salt", "enc"}, salt, enc, plain)
    ELSE IF plain = None
    THEN LoadResult(Raised("ConfigError", "FileNotFoundError"), {}, salt, enc, plain)
    ELSE LET d == JsonLoads(plain[1])
         IN  LoadResult(IF d.ok THEN d ELSE Raised("ConfigError", d.cause),
                        {"plain"}, salt, enc, plain)

SaveResult(out, salt, enc, plain) ==
    [out |-> out, salt |-> salt, enc |-> enc, plain |-> plain]

\* A faulty variant: the encrypting branch leaves the password at {path}
\* as a recovery hint ({"a": password}) instead of removing the file.
save_config_KeepsPassword(config, password, salt, enc, plain, rnd, ts, iv) ==
    IF Truthy(password)
    THEN LET ks == generate_key(password[1], None, rnd)
             e  == encrypt_config(config, ks[1], ts, iv)
         IN  IF e.ok
             THEN SaveResult(Returned(None), Some(ks[2]), Some(e.value[1]),
                             Some(JsonDumps([a |-> JStr(password[1])])))
             ELSE SaveResult(Raised("ConfigError", e.cause), Some(ks[2]), enc, plain)
    ELSE IF Serializable(config)
         THEN SaveResult(Returned(None), salt, enc, Some(JsonDumps(config)))
         ELSE SaveResult(Raised("ConfigError", "TypeError"), salt, enc,
                         Some(JsonDumpPartial(config)))

\* save_config(config, config_path, password) on the files (salt, enc,
\* plain); rnd, ts and iv are what os.urandom and time.time return.  The
\* outcome and the files afterwards.  Every exception leaves as ConfigError.
save_config(config, password, salt, enc, plain, rnd, ts, iv) ==
    IF Truthy(password)
    THEN LET ks == generate_key(password[1], None, rnd)
             e  == encrypt_config(config, ks[1], ts, iv)
         IN  IF e.ok
             THEN SaveResult(Returned(None), Some(ks[2]), Some(e.value[1]), None)
             ELSE SaveResult(Raised("ConfigError", e.cause), Some(ks[2]), enc, plain)
    ELSE IF Serializable(config)
         THEN SaveResult(Returned(None), salt, enc, Some(JsonDumps(config)))
         ELSE SaveResult(Raised("ConfigError", "TypeError"), salt, enc,
                         Some(JsonDumpPartial(config)))

-----------------------------------------------------------------------------
(* The data vault: secure_save and secure_load on one filepath *)

\* secure_save(data, filepath, password) on the files (salt, data file):
\* the token is built before either file is opened.  Every exception leaves
\* as SecureDataError.
secure_save(data, password, salt, file, rnd, ts, iv) ==
    LET ks == generate_key(password, None, rnd)
        e  == encrypt_data(data, ks[1], ts, iv)
    IN  IF e.ok
        THEN [out |-> Returned(None), salt |-> Some(ks[2]), file |-> Some(e.value[1])]
        ELSE [out |-> Raised("SecureDataError", e.cause), salt |-> salt, file |-> file]

\* secure_load(filepath, password) on the files (salt, data file).
secure_load(password, salt, file) ==
    IF salt = None THEN Raised("SecureDataError", "Salt file not found")
    ELSE IF file = None THEN Raised("SecureDataError", "FileNotFoundError")
    ELSE LET d == decrypt_data(file[1], generate_key(password, Some(salt[1]), 1)[1])
         IN  IF d.ok THEN d ELSE Raised("SecureDataError", d.cause)

-----------------------------------------------------------------------------
(* State machine of the configuration vault *)

\* The dicts the vault is driven with: one key, any Python value.
VaultConfigs == {c \in Configs : DOMAIN c = {"a"}}

PasswordArgs == {None} \cup {Some(p) : p \in Passwords}

Exists == [salt |-> salt_file # None, enc |-> enc_file # None, plain |-> plain_file # None]

NoCall == [op |-> "none", out |-> Returned(None), reads |-> {}, pw |-> None,
           pre |-> [salt |-> FALSE, enc |-> FALSE, plain |-> FALSE]]

InitHarness ==
    /\ tok = None /\ tok_src = None /\ tok_mod = 0
    /\ dres = [op |-> "none"]
    /\ derived = <<>>

InitSD ==
    /\ sd_salt = None /\ sd_data = None
    /\ sd_res = [op |-> "none", out |-> Returned(None), pw |-> ""]

InitVault ==
    /\ salt_file = None /\ enc_file = None
    /\ plain_file = None
    /\ env_pw = None
    /\ res = NoCall
    /\ last_save = None
    /\ saves_only = TRUE

\* No save_config and no load_config call is running.
OvIdle ==
    [mod |-> "config_utils",
     sv |-> [pc |-> "idle", config |-> <<>>, pw |-> None, salt |-> 0, key |-> None,
             tok |-> None, out |-> Returned(None)],
     ld |-> [pc |-> "idle", pw |-> None, salt |-> None, late |-> FALSE,
             out |-> Returned(None)]]

InitCalls ==
    /\ calls = <<>>
    /\ sv = [pc |-> "idle", config |-> <<>>, pw |-> None, salt |-> 0,
             tok |-> None, wrote |-> {}, out |-> Returned(None)]
    /\ ld = [pc |-> "idle", pw |-> None, salt |-> None, salt_gen |-> 0, enc_gen |-> 0,
             moved |-> FALSE, out |-> Returned(None)]
    /\ gens = [salt |-> 0, enc |-> 0]
    /\ seen = {}
    /\ int_key = None /\ signed = None
    /\ vres = [op |-> "none"]
    /\ san = [op |-> "none"]
    /\ heap = <<>>
    /\ wk = [pc |-> "idle", via |-> "none", stack |-> <<>>, data |-> 0, out |-> 0,
             before |-> <<>>, steps |-> 0, visits |-> <<>>, log |-> <<>>]
    /\ api = [pc |-> "idle", max_retries |-> 0, attempt |-> 0, requests |-> <<>>,
              sleeps |-> <<>>, out |-> None]

InitExt == InitCalls /\ ov = OvIdle

Init == InitVault /\ InitHarness /\ InitSD /\ InitExt

\* What os.urandom (salt, IV) and time.time return during a save_config
\* call; they are called only on the encrypting branch.
Draws(password) ==
    IF Truthy(password) THEN Salts \X Times \X IVs ELSE {<<1, 0, 1>>}

\* A caller runs save_config(config, config_path, password).
SaveConfig ==
    \E config \in VaultConfigs, password \in PasswordArgs :
        \E d \in Draws(password) :
            LET r == save_config(config, password, salt_file, enc_file, plain_file,
                                 d[1], d[2], d[3])
            IN  /\ salt_file' = r.salt
                /\ enc_file' = r.enc
                /\ plain_file' = r.plain
                /\ res' = [op |-> "save", out |-> r.out, reads |-> {}, pw |-> password,
                           pre |-> Exists]
                /\ last_save' = IF r.out.ok
                                THEN Some([config |-> config, pw |-> password])
                                ELSE None
                /\ saves_only' = (saves_only /\ r.out.ok)
                /\ UNCHANGED <<env_pw, cipherVars, derived, sdVars, extVars>>

\* A caller runs load_config(config_path).
LoadConfig ==
    LET r == load_config(salt_file, enc_file, plain_file, env_pw)
    IN  /\ salt_file' = r.salt
        /\ enc_file' = r.enc
        /\ plain_file' = r.plain
        /\ res' = [op |-> "load", out |-> r.out, reads |-> r.reads, pw |-> env_pw,
                   pre |-> Exists]
        /\ UNCHANGED <<env_pw, last_save, saves_only, cipherVars, derived, sdVars, extVars>>

\* The environment sets or unsets CONFIG_PASSWORD (the outcome of the last
\* call has been looked at by then).
SetEnv ==
    \E v \in PasswordArgs :
        /\ v # env_pw
        /\ env_pw' = v
        /\ res' = NoCall
        /\ UNCHANGED <<salt_file, enc_file, plain_file, last_save, saves_only,
                       cipherVars, derived, sdVars, extVars>>

\* Someone outside the vault deletes one of the three files.
RemoveFile ==
    \E f \in {"salt", "enc", "plain"} :
        /\ Exists[f]
        /\ salt_file' = IF f = "salt" THEN None ELSE salt_file
        /\ enc_file' = IF f = "enc" THEN None ELSE enc_file
        /\ plain_file' = IF f = "plain" THEN None ELSE plain_file
        /\ last_save' = None
        /\ saves_only' = FALSE
        /\ res' = NoCall
        /\ UNCHANGED <<env_pw, cipherVars, derived, sdVars, extVars>>

\* Someone outside the vault writes a legacy plaintext config at {path}.
WriteLegacy ==
    \E c \in {x \in VaultConfigs : Serializable(x)} :
        /\ plain_file # Some(JsonDumps(c))
        /\ plain_file' = Some(JsonDumps(c))
        /\ last_save' = None
        /\ saves_only' = FALSE
        /\ res' = NoCall
        /\ UNCHANGED <<salt_file, enc_file, env_pw, cipherVars, derived, sdVars, extVars>>

Next == SaveConfig \/ LoadConfig \/ SetEnv \/ RemoveFile \/ WriteLegacy

Spec == Init /\ [][Next]_vars

-----------------------------------------------------------------------------
(* Harness for the cipher functions: encrypt a payload, change at most one *)
(* position of the token, decrypt under some key.                          *)

\* The keys the cipher is driven with: one per password, salt 1.
CipherKeys == {PBKDF2(p, 1) : p \in Passwords}

\* What may stand at position i of a token text after a modification: any
\* value the field takes in a token of the harness (under any key), one value
\* no token holds, in either spelling, or a byte outside the alphabet.
FieldValues(i) ==
    CASE i = 1 -> {FERNET_VERSION, 0}
      [] i = 2 -> Times \cup {1}
      [] i = 3 -> 0..NIVs
      [] i = 4 -> {AESEncrypt(k, iv, JsonDumps(c)) :
                      k \in CipherKeys, iv \in IVs, c \in JsonConfigs} \cup {[junk |-> 4]}
      [] i = 5 -> {HMAC(k, FERNET_VERSION, ts, iv, AESEncrypt(k, iv, JsonDumps(c))) :
                      k \in CipherKeys, ts \in Times, iv \in IVs, c \in JsonConfigs}
                  \cup {[junk |-> 5]}

CharsAt(i) == {B64Char(v, sp) : v \in FieldValues(i), sp \in {0, 1}} \cup {B64Bad}

\* encrypt_config(config, key) / encrypt_data(data, key): both build the
\* same token; an unserializable dict raises and leaves no token.
Encrypt ==
    \E config \in Configs, key \in CipherKeys, ts \in Times, iv \in IVs :
        LET e == encrypt_config(config, key, ts, iv)
            w == encrypt_data(config, key, ts, iv)
        IN  /\ tok = None
            /\ tok' = IF e.ok THEN Some(e.value[1]) ELSE None
            /\ tok_src' = IF e.ok
                          THEN Some([config |-> config, key |-> key, token |-> e.value[1]])
                          ELSE None
            /\ tok_mod' = 0
            /\ dres' = [op |-> "encrypt", config |-> e, data |-> w]
            /\ UNCHANGED <<vaultVars, derived, sdVars, extVars>>

\* One position of the token text is replaced by something else.
Modify ==
    \E i \in 1..5 :
        \E c \in CharsAt(i) :
            /\ tok # None
            /\ tok_mod = 0
            /\ c # tok[1][i]
            /\ tok' = Some([tok[1] EXCEPT ![i] = c])
            /\ tok_mod' = i
            /\ dres' = [op |-> "modify"]
            /\ UNCHANGED <<tok_src, vaultVars, derived, sdVars, extVars>>

\* decrypt_config(tok, key) and decrypt_data(tok, key).
Decrypt ==
    \E key \in CipherKeys :
        /\ tok # None
        /\ dres' = [op |-> "decrypt", key |-> key,
                    config |-> decrypt_config(tok[1], key),
                    data |-> decrypt_data(tok[1], key)]
        /\ UNCHANGED <<tok, tok_src, tok_mod, vaultVars, derived, sdVars, extVars>>

NextCipher == Encrypt \/ Modify \/ Decrypt

SpecCipher == Init /\ [][NextCipher]_vars

-----------------------------------------------------------------------------
(* Harness for key derivation: the last two calls of generate_key /        *)
(* derive_key, with the environment changing in between.  Neither function *)
(* has a raise statement or a test of the password: every call returns.    *)

Derive ==
    \E p \in Passwords, salt \in ({None} \cup {Some(x) : x \in Salts}), rnd \in Salts :
        LET r == generate_key(p, salt, rnd)
            call == [pw |-> p, salt |-> salt, key |-> r[1], salt_out |-> r[2],
                     env |-> env_pw, out |-> Returned(r)]
        IN  /\ derived' = IF Len(derived) < 2 THEN Append(derived, call)
                          ELSE <<derived[2], call>>
            /\ UNCHANGED <<vaultVars, cipherVars, sdVars, extVars>>

NextDerive == Derive \/ SetEnv

SpecDerive == Init /\ [][NextDerive]_vars

-----------------------------------------------------------------------------
(* State machine of the data vault *)

\* A caller runs secure_save(data, filepath, password).
SecureSave ==
    \E data \in VaultConfigs, password \in Passwords,
       rnd \in Salts, ts \in Times, iv \in IVs :
        LET r == secure_save(data, password, sd_salt, sd_data, rnd, ts, iv)
        IN  /\ sd_salt' = r.salt
            /\ sd_data' = r.file
            /\ sd_res' = [op |-> "save", out |-> r.out, pw |-> password]
            /\ UNCHANGED <<vaultVars, cipherVars, derived, extVars>>

\* A caller runs secure_load(filepath, password).
SecureLoad ==
    \E password \in Passwords :
        /\ sd_res' = [op |-> "load", out |-> secure_load(password, sd_salt, sd_data),
                      pw |-> password]
        /\ UNCHANGED <<sd_salt, sd_data, vaultVars, cipherVars, derived, extVars>>

\* Someone outside the vault deletes one of the two files.
SDRemoveFile ==
    /\ \/ sd_salt # None /\ sd_salt' = None /\ sd_data' = sd_data
       \/ sd_data # None /\ sd_data' = None /\ sd_salt' = sd_salt
    /\ sd_res' = [op |-> "none", out |-> Returned(None), pw |-> ""]
    /\ UNCHANGED <<vaultVars, cipherVars, derived, extVars>>

NextSD == SecureSave \/ SecureLoad \/ SDRemoveFile

SpecSD == Init /\ [][NextSD]_vars

-----------------------------------------------------------------------------
(* Integrity check: verify_data_integrity, and the signature it computes   *)

\* A dict as Python keeps it: its items in insertion order, no key twice.
\* Two such dicts are equal in Python when they hold the same items.
OrderedDictsOver(V) ==
    {<<>>} \cup {<<<<k, v>>>> : k \in Keys, v \in V}
           \cup {od \in {<<<<k1, v1>>, <<k2, v2>>>> :
                            k1 \in Keys, k2 \in Keys, v1 \in V, v2 \in V} :
                      od[1][1] # od[2][1]}

Items(od) == {od[i] : i \in DOMAIN od}
OrderedSerializable(od) == \A i \in DOMAIN od : od[i][2].t # "set"

\* The order sort_keys=True puts the keys in.
SortedKeys == <<"a", "b">>

\* A faulty variant: sort_keys is left out, the items are written in
\* insertion order.
JsonDumpsSorted_Insertion(od) ==
    [i \in DOMAIN od |-> <<od[i][1], JsonValueText(od[i][2])>>]

\* json.dumps(data, sort_keys=True): the members in key order.
JsonDumpsSorted(od) ==
    LET present == SelectSeq(SortedKeys, LAMBDA k : \E i \in DOMAIN od : od[i][1] = k)
        valueOf(k) == od[CHOOSE i \in DOMAIN od : od[i][1] = k][2]
    IN  [j \in DOMAIN present |-> <<present[j], JsonValueText(valueOf(present[j]))>>]

\* A faulty variant: a plain SHA-256 of the text, the secret is not used.
HexDigest_Unkeyed(secret, text) == [k |-> "", msg |-> text]

\* hmac.new(secret.encode(), text.encode(), hashlib.sha256).hexdigest():
\* lowercase hex that names its inputs.
HexDigest(secret, text) == [k |-> secret, msg |-> text]

\* The signature of data under secret: what verify_data_integrity
\* calculates and compares with (calculated_signature).
sign(data, secret) == HexDigest(secret, JsonDumpsSorted(data))

\* hmac.compare_digest on two ASCII strings.
compare_digest(a, b) == a = b

NoIntegrityKey == "DATA_INTEGRITY_KEY environment variable not set"

\* A faulty variant: without a secret, verification reports False.
verify_data_integrity_NoSecretFalse(data, signature, envkey) ==
    IF ~Truthy(envkey) THEN Returned(FALSE)
    ELSE IF ~OrderedSerializable(data) THEN Raised("SecureDataError", "TypeError")
    ELSE Returned(compare_digest(sign(data, envkey[1]), signature))

\* A faulty variant: verification looks for a token file first.
verify_data_integrity_NeedsVault(data, signature, envkey) ==
    IF enc_file = None /\ sd_data = None
    THEN Raised("SecureDataError", "FileNotFoundError")
    ELSE IF ~Truthy(envkey) THEN Raised("SecureDataError", NoIntegrityKey)
    ELSE IF ~OrderedSerializable(data) THEN Raised("SecureDataError", "TypeError")
    ELSE Returned(compare_digest(sign(data, envkey[1]), signature))

\* verify_data_integrity(data, signature) with DATA_INTEGRITY_KEY = envkey.
\* Every exception leaves as SecureDataError.
verify_data_integrity(data, signature, envkey) ==
    IF ~Truthy(envkey) THEN Raised("SecureDataError", NoIntegrityKey)
    ELSE IF ~OrderedSerializable(data) THEN Raised("SecureDataError", "TypeError")
    ELSE Returned(compare_digest(sign(data, envkey[1]), signature))

\* Harness: a payload is signed under a secret, the environment sets
\* DATA_INTEGRITY_KEY, a caller verifies a payload against a signature.
Secrets == {"", "s1", "s2"}
SecretArgs == {None} \cup {Some(s) : s \in Secrets}
SignPayloads == OrderedDictsOver(JsonValues)
VerifyPayloads == OrderedDictsOver(PyValues)
\* A 64-character hex string that is no HMAC of the harness.
JunkSignature == [k |-> "junk", msg |-> <<>>]

Sign ==
    \E data \in SignPayloads, secret \in Secrets :
        /\ signed' = Some([data |-> data, secret |-> secret, sig |-> sign(data, secret)])
        /\ vres' = [op |-> "sign"]
        /\ UNCHANGED <<int_key, vaultVars, cipherVars, derived, sdVars, walkVars, api, ov, calls, stepVars, san>>

SetIntegrityKey ==
    \E v \in SecretArgs :
        /\ v # int_key
        /\ int_key' = v
        /\ vres' = [op |-> "none"]
        /\ UNCHANGED <<signed, vaultVars, cipherVars, derived, sdVars, walkVars, api, ov, calls, stepVars, san>>

Verify ==
    \E data \in VerifyPayloads :
        \E sig \in {JunkSignature} \cup {signed[i].sig : i \in DOMAIN signed} :
            /\ vres' = [op |-> "verify", data |-> data, sig |-> sig, key |-> int_key,
                        out |-> verify_data_integrity(data, sig, int_key)]
            /\ UNCHANGED <<int_key, signed, vaultVars, cipherVars, derived, sdVars, walkVars, api, ov,
                           calls, stepVars, san>>

NextVerify == Sign \/ SetIntegrityKey \/ Verify

SpecVerify == Init /\ [][NextVerify]_vars

-----------------------------------------------------------------------------
(* Redaction: sanitize_sensitive_data.  Strings whose characters matter    *)
(* (dict keys, string values) are sequences of one-character strings.      *)

MaxValLen == 6     \* string values of the harness have at most MaxValLen characters

sensitive_fields ==
    {<<"a", "p", "i", "_", "k", "e", "y">>,
     <<"p", "a", "s", "s", "w", "o", "r", "d">>,
     <<"t", "o", "k", "e", "n">>,
     <<"s", "e", "c", "r", "e", "t">>,
     <<"k", "e", "y">>,
     <<"c", "r", "e", "d", "i", "t", "_", "c", "a", "r", "d">>,
     <<"s", "s", "n">>,
     <<"s", "o", "c", "i", "a", "l", "_", "s", "e", "c", "u", "r", "i", "t", "y">>,
     <<"a", "c", "c", "o", "u", "n", "t", "_", "n", "u", "m", "b", "e", "r">>}

UpperToLower ==
    [A |-> "a", B |-> "b", C |-> "c", D |-> "d", E |-> "e", F |-> "f", G
     |-> "g", H |-> "h", I |-> "i", J |-> "j", K |-> "k", L |-> "l", M |->
     "m", N |-> "n", O |-> "o", P |-> "p", Q |-> "q", R |-> "r", S |-> "s",
     T |-> "t", U |-> "u", V |-> "v", W |-> "w", X |-> "x", Y |-> "y", Z
     |-> "z"]

\* str.lower()
Lower(str) ==
    [i \in DOMAIN str |->
        IF str[i] \in DOMAIN UpperToLower THEN UpperToLower[str[i]] ELSE str[i]]

\* field in str
Contains(field, str) ==
    \E i \in 1..(Len(str) - Len(field) + 1) :
        SubSeq(str, i, i + Len(field) - 1) = field

\* "*" * n
Stars(n) == [i \in 1..n |-> "*"]

\* A faulty variant: the short-value test is "< 4".
mask_value_Lt4(value) ==
    IF Len(value) < 4
    THEN Stars(Len(value))
    ELSE SubSeq(value, 1, 2) \o Stars(Len(value) - 4)
             \o SubSeq(value, Len(value) - 1, Len(value))

\* A faulty variant: the two ends of a long value change places.
mask_value_Swapped(value) ==
    IF Len(value) <= 4
    THEN Stars(Len(value))
    ELSE SubSeq(value, Len(value) - 1, Len(value)) \o Stars(Len(value) - 4)
             \o SubSeq(value, 1, 2)

\* mask_value(value): value[:2] + "*" * (len(value) - 4) + value[-2:]
mask_value(value) ==
    IF Len(value) <= 4
    THEN Stars(Len(value))
    ELSE SubSeq(value, 1, 2) \o Stars(Len(value) - 4)
             \o SubSeq(value, Len(value) - 1, Len(value))

\* Values of the dicts given to sanitize: a str, an int, a nested dict, a
\* list.
PyStr(chars) == [t |-> "str", c |-> chars]
PyDict(d) == [t |-> "dict", d |-> d]
PyList(items) == [t |-> "list", l |-> items]

\* A faulty variant: the values that are dicts are not sanitized.
sanitize_dict_Shallow(d) ==
    [key \in DOMAIN d |->
        LET value == d[key]
        IN  IF value.t = "str"
               /\ \E field \in sensitive_fields : Contains(field, Lower(key))
            THEN PyStr(mask_value(value.c))
            ELSE value]

\* A variant that also sanitizes the dicts that are elements of a list.
RECURSIVE sanitize_dict_Lists(_)
sanitize_dict_Lists(d) ==
    [key \in DOMAIN d |->
        LET value == d[key]
        IN  IF value.t = "dict" THEN PyDict(sanitize_dict_Lists(value.d))
            ELSE IF value.t = "list"
                 THEN PyList([i \in DOMAIN value.l |->
                                 IF value.l[i].t = "dict"
                                 THEN PyDict(sanitize_dict_Lists(value.l[i].d))
                                 ELSE value.l[i]])
            ELSE IF value.t = "str"
                    /\ \E field \in sensitive_fields : Contains(field, Lower(key))
                 THEN PyStr(mask_value(value.c))
            ELSE value]

\* sanitize_dict(d): a new dict, key by key.
RECURSIVE sanitize_dict(_)
sanitize_dict(d) ==
    [key \in DOMAIN d |->
        LET value == d[key]
        IN  IF value.t = "dict" THEN PyDict(sanitize_dict(value.d))
            ELSE IF value.t = "str"
                    /\ \E field \in sensitive_fields : Contains(field, Lower(key))
                 THEN PyStr(mask_value(value.c))
            ELSE value]

sanitize_sensitive_data(data) == sanitize_dict(data)

\* Harness: dicts of one item, the value a string, an int or a dict of one
\* string item.
SanKeys == {<<"a", "p", "i", "_", "k", "e", "y">>, <<"n", "a", "m", "e">>, <<"T", "O", "K", "E", "N">>, <<"m", "o", "n", "k", "e", "y">>, <<"P", "a", "s", "s">>}
SanStrings == UNION {[1..n -> {"a", "b"}] : n \in 0..MaxValLen}
SanLeaves == {PyStr(x) : x \in SanStrings} \cup {JInt(1)}
OneItem(k, v) == [x \in {k} |-> v]
SanDicts ==
    {OneItem(k, v) : k \in SanKeys, v \in SanLeaves}
    \cup {OneItem(k, PyDict(OneItem(k2, PyStr(x)))) :
             k \in SanKeys, k2 \in SanKeys, x \in SanStrings}

\* One call of sanitize_sensitive_data (a pure function: a second call
\* learns nothing from the first).
Sanitize ==
    \E data \in SanDicts :
        /\ san.op = "none"
        /\ san' = [op |-> "sanitize", data |-> data, out |-> sanitize_sensitive_data(data)]
        /\ UNCHANGED <<vaultVars, cipherVars, derived, sdVars, walkVars, api, ov, calls, stepVars, verifyVars>>

NextSanitize == Sanitize

SpecSanitize == Init /\ [][NextSanitize]_vars

-----------------------------------------------------------------------------
(* Harness for failures: each operation of the two modules is called on    *)
(* inputs drawn from the situations it can meet; the last two calls are    *)
(* kept with what the caller saw.                                          *)

\* A token of the vault, and the same with a byte outside the base64
\* alphabet in it.
GoodToken == FernetEncrypt(PBKDF2("pw", 1), JsonDumps([a |-> JInt(1)]), 0, 1)
MalformedToken == [GoodToken EXCEPT ![1] = B64Bad]
ErrTokens == {GoodToken, MalformedToken}

\* What is wrong with a token for a key, if anything.
TokenCause(token, key) ==
    IF ~urlsafe_b64decode(token).ok THEN "malformed token"
    ELSE IF FernetDecrypt(key, token).ok THEN "none"
    ELSE "failed authentication"

\* What is wrong when load_config meets these files and this environment;
\* "several" when more than one thing is.
LoadConfigCause(salt, enc, plain, envpw) ==
    IF enc = None
    THEN IF salt = None /\ plain = None THEN "no vault"
         ELSE IF salt # None THEN "several" ELSE "none"
    ELSE IF ~Truthy(envpw) THEN IF salt = None THEN "several" ELSE "missing secret"
    ELSE IF salt = None THEN "missing salt"
    ELSE TokenCause(enc[1], PBKDF2(envpw[1], salt[1]))

\* What is wrong when secure_load meets these files.
SecureLoadCause(password, salt, file) ==
    IF salt = None /\ file = None THEN "no vault"
    ELSE IF salt = None THEN "missing salt"
    ELSE IF file = None THEN "several"
    ELSE TokenCause(file[1], PBKDF2(password, salt[1]))

PayloadCause(config) == IF Serializable(config) THEN "none" ELSE "unserializable payload"

Record(call) ==
    calls' = IF Len(calls) < 2 THEN Append(calls, call) ELSE <<calls[2], call>>

ErrUnchanged == UNCHANGED <<vaultVars, cipherVars, derived, sdVars, walkVars, api, ov, stepVars, verifyVars, san>>

ErrLoadConfig ==
    \E salt \in {None, Some(1)}, enc \in {None} \cup {Some(t) : t \in ErrTokens},
       plain \in {None, Some(JsonDumps([a |-> JInt(1)]))}, envpw \in PasswordArgs :
        /\ Record([op |-> "load_config",
                   sit |-> LoadConfigCause(salt, enc, plain, envpw),
                   out |-> load_config(salt, enc, plain, envpw).out])
        /\ ErrUnchanged

ErrSaveConfig ==
    \E config \in VaultConfigs, password \in PasswordArgs :
        /\ Record([op |-> "save_config",
                   sit |-> PayloadCause(config),
                   out |-> save_config(config, password, None, None, None, 1, 0, 1).out])
        /\ ErrUnchanged

ErrSecureLoad ==
    \E salt \in {None, Some(1)}, file \in {None} \cup {Some(t) : t \in ErrTokens},
       password \in Passwords :
        /\ Record([op |-> "secure_load",
                   sit |-> SecureLoadCause(password, salt, file),
                   out |-> secure_load(password, salt, file)])
        /\ ErrUnchanged

ErrSecureSave ==
    \E data \in VaultConfigs, password \in Passwords :
        /\ Record([op |-> "secure_save",
                   sit |-> PayloadCause(data),
                   out |-> secure_save(data, password, None, None, 1, 0, 1).out])
        /\ ErrUnchanged

ErrDecrypt ==
    \E token \in ErrTokens, key \in CipherKeys :
        /\ \/ Record([op |-> "decrypt_config", sit |-> TokenCause(token, key),
                      out |-> decrypt_config(token, key)])
           \/ Record([op |-> "decrypt_data", sit |-> TokenCause(token, key),
                      out |-> decrypt_data(token, key)])
        /\ ErrUnchanged

ErrVerify ==
    \E data \in {od \in VerifyPayloads : Len(od) = 1}, envkey \in SecretArgs :
        /\ (Truthy(envkey) \/ OrderedSerializable(data))
        /\ Record([op |-> "verify_data_integrity",
                   sit |-> IF ~Truthy(envkey) THEN "missing secret"
                           ELSE IF OrderedSerializable(data) THEN "none"
                           ELSE "unserializable payload",
                   out |-> verify_data_integrity(data, JunkSignature, envkey)])
        /\ ErrUnchanged

NextErr ==
    ErrLoadConfig \/ ErrSaveConfig \/ ErrSecureLoad \/ ErrSecureSave
        \/ ErrDecrypt \/ ErrVerify

SpecErr == Init /\ [][NextErr]_vars

-----------------------------------------------------------------------------
(* save_config and load_config statement by statement: one save_config     *)
(* call and one load_config call run on the same config_path, each file    *)
(* operation is one step, and nothing locks the files.                     *)

\* The files are tagged with the age of the save_config call that wrote
\* them: 1 for the latest call, 2 for the one before, up to Oldest for all
\* earlier ones; 0 where no call wrote the file.
Oldest == 3

Aged(age) == IF age = 0 THEN 0 ELSE IF age < Oldest THEN age + 1 ELSE Oldest

\* The dicts and passwords save_config is called with here.
StepConfigs == {[a |-> JInt(1)], [a |-> PySet]}
StepPasswords == {None, Some("pw"), Some("other")}

\* A faulty variant: the token is built and written before the salt.
SaveStepOrder_TokenFirst == <<"encrypt", "write_enc", "write_salt", "remove">>

\* The statements of the encrypting branch of save_config, in source order:
\* write {path}.salt (92-94), encrypt_config (97), write {path}.enc
\* (98-100), remove {path} (103-104).
SaveStepOrder == <<"write_salt", "encrypt", "write_enc", "remove">>

After(pc) ==
    LET i == CHOOSE j \in DOMAIN SaveStepOrder : SaveStepOrder[j] = pc
    IN  IF i = Len(SaveStepOrder) THEN "done" ELSE SaveStepOrder[i + 1]

SaveRunning == sv.pc \notin {"idle", "done"}

\* The call ends: its locals are gone, the caller has the outcome.
SaveEnds(out, wrote) ==
    sv' = [pc |-> "done", config |-> <<>>, pw |-> None, salt |-> 0,
           tok |-> None, wrote |-> wrote, out |-> out]

\* History: a load_config call that has read the salt and not yet the token
\* notes that the save_config call took a step.
LoadSeesStep ==
    ld' = IF ld.pc = "read_enc" THEN [ld EXCEPT !.moved = TRUE] ELSE ld

\* open() or os.remove() refuses (permissions, a directory in the way):
\* OSError, wrapped in ConfigError; the file is as it was.
SaveOSError == SaveEnds(Raised("ConfigError", "OSError"), sv.wrote)

StepUnchanged == UNCHANGED <<res, last_save, saves_only, cipherVars, derived, sdVars, walkVars, api, ov,
                             calls, verifyVars, san>>

\* save_config is called (81-89) with one of these dicts and passwords: the
\* test of password, generate_key.
SaveStartWith(configs, passwords) ==
    \E config \in configs, password \in passwords, rnd \in Salts :
        /\ ~SaveRunning
        /\ sv' = [pc |-> IF Truthy(password) THEN SaveStepOrder[1] ELSE "write_plain",
                  config |-> config, pw |-> password,
                  salt |-> IF Truthy(password)
                           THEN generate_key(password[1], None, rnd)[2] ELSE 0,
                  tok |-> None, wrote |-> {}, out |-> Returned(None)]
        /\ gens' = [salt |-> Aged(gens.salt), enc |-> Aged(gens.enc)]
        /\ ld' = IF ld.pc = "read_enc"
                 THEN [ld EXCEPT !.salt_gen = Aged(@), !.moved = TRUE]
                 ELSE ld
        /\ UNCHANGED <<salt_file, enc_file, plain_file, env_pw, seen>>
        /\ StepUnchanged

SaveStart == SaveStartWith(StepConfigs, StepPasswords)

\* Lines 92-94: the salt file is opened and written.
SaveWriteSalt ==
    /\ sv.pc = "write_salt"
    /\ \/ /\ salt_file' = Some(sv.salt)
          /\ gens' = [gens EXCEPT !.salt = 1]
          /\ sv' = [sv EXCEPT !.pc = After("write_salt"), !.wrote = @ \cup {"salt"}]
       \/ /\ SaveOSError
          /\ UNCHANGED <<salt_file, gens>>
    /\ LoadSeesStep
    /\ UNCHANGED <<enc_file, plain_file, env_pw, seen>>
    /\ StepUnchanged

\* Line 97: encrypt_config; TypeError on an unserializable dict.
SaveEncrypt ==
    \E ts \in Times, iv \in IVs :
        LET e == encrypt_config(sv.config, generate_key(sv.pw[1], Some(sv.salt), 1)[1],
                                ts, iv)
        IN  /\ sv.pc = "encrypt"
            /\ IF e.ok
               THEN sv' = [sv EXCEPT !.pc = After("encrypt"), !.tok = Some(e.value[1])]
               ELSE SaveEnds(Raised("ConfigError", e.cause), sv.wrote)
            /\ LoadSeesStep
            /\ UNCHANGED <<salt_file, enc_file, plain_file, env_pw, gens, seen>>
            /\ StepUnchanged

\* Lines 98-100: the token file is opened and written.
SaveWriteEnc ==
    /\ sv.pc = "write_enc"
    /\ \/ /\ enc_file' = sv.tok
          /\ gens' = [gens EXCEPT !.enc = 1]
          /\ sv' = [sv EXCEPT !.pc = After("write_enc"), !.wrote = @ \cup {"enc"}]
       \/ /\ SaveOSError
          /\ UNCHANGED <<enc_file, gens>>
    /\ LoadSeesStep
    /\ UNCHANGED <<salt_file, plain_file, env_pw, seen>>
    /\ StepUnchanged

\* Lines 103-104: the unencrypted file is removed if it exists.
SaveRemove ==
    /\ sv.pc = "remove"
    /\ \/ /\ plain_file = None
          /\ SaveEnds(Returned(None), sv.wrote)
          /\ UNCHANGED plain_file
       \/ /\ plain_file # None
          /\ plain_file' = None
          /\ SaveEnds(Returned(None), sv.wrote \cup {"plain"})
       \/ /\ plain_file # None
          /\ SaveOSError
          /\ UNCHANGED plain_file
    /\ LoadSeesStep
    /\ UNCHANGED <<salt_file, enc_file, env_pw, gens, seen>>
    /\ StepUnchanged

\* Lines 107-108: the plaintext branch.
SaveWritePlain ==
    /\ sv.pc = "write_plain"
    /\ \/ /\ plain_file' = Some(IF Serializable(sv.config) THEN JsonDumps(sv.config)
                                ELSE JsonDumpPartial(sv.config))
          /\ SaveEnds(IF Serializable(sv.config) THEN Returned(None)
                      ELSE Raised("ConfigError", "TypeError"),
                      sv.wrote \cup {"plain"})
       \/ /\ SaveOSError
          /\ UNCHANGED plain_file
    /\ LoadSeesStep
    /\ UNCHANGED <<salt_file, enc_file, env_pw, gens, seen>>
    /\ StepUnchanged

LoadRunning == ld.pc \notin {"idle", "done"}

LoadEnds(out) ==
    ld' = [ld EXCEPT !.pc = "done", !.pw = None, !.salt = None, !.out = out]

\* The running save_config call has written its salt and not yet its token.
SaveBetweenWrites == sv.pc \in {"encrypt", "write_enc"}

\* load_config is called (47-57): the test of {path}.enc, CONFIG_PASSWORD.
LoadStart ==
    /\ ~LoadRunning
    /\ LET fresh == [pc |-> "idle", pw |-> env_pw, salt |-> None, salt_gen |-> 0,
                     enc_gen |-> 0, moved |-> FALSE, out |-> Returned(None)]
       IN  ld' = IF enc_file = None THEN [fresh EXCEPT !.pc = "read_plain"]
                 ELSE IF ~Truthy(env_pw)
                 THEN [fresh EXCEPT !.pc = "done", !.pw = None,
                         !.out = Raised("ConfigError",
                                        "CONFIG_PASSWORD environment variable not set")]
                 ELSE [fresh EXCEPT !.pc = "check_salt"]
    /\ UNCHANGED <<salt_file, enc_file, plain_file, env_pw, sv, gens, seen>>
    /\ StepUnchanged

\* Lines 60-62: the test of {path}.salt.
LoadCheckSalt ==
    /\ ld.pc = "check_salt"
    /\ IF salt_file = None
       THEN LoadEnds(Raised("ConfigError", "Salt file not found"))
       ELSE ld' = [ld EXCEPT !.pc = "read_salt"]
    /\ UNCHANGED <<salt_file, enc_file, plain_file, env_pw, sv, gens, seen>>
    /\ StepUnchanged

\* Lines 64-65: the salt file is read.
LoadReadSalt ==
    /\ ld.pc = "read_salt"
    /\ IF salt_file = None
       THEN LoadEnds(Raised("ConfigError", "FileNotFoundError"))
       ELSE ld' = [ld EXCEPT !.pc = "read_enc", !.salt = salt_file,
                             !.salt_gen = gens.salt]
    /\ UNCHANGED <<salt_file, enc_file, plain_file, env_pw, sv, gens, seen>>
    /\ StepUnchanged

\* The pair of files a load_config call has read while a save_config call
\* was rewriting them, when it is a mixed one.
Mixed(salt_gen, enc_gen) ==
    IF salt_gen = 1 /\ enc_gen > 1 /\ SaveBetweenWrites
    THEN {"new salt, old token"}
    ELSE IF salt_gen > enc_gen THEN {"old salt, new token"}
    ELSE {}

\* Lines 68-71: generate_key, the token file is read, decrypt_config.
LoadReadEnc ==
    /\ ld.pc = "read_enc"
    /\ IF enc_file = None
       THEN /\ LoadEnds(Raised("ConfigError", "FileNotFoundError"))
            /\ UNCHANGED seen
       ELSE LET key == generate_key(ld.pw[1], ld.salt, 1)[1]
                d   == decrypt_config(enc_file[1], key)
            IN  /\ ld' = [ld EXCEPT !.pc = "done", !.pw = None, !.salt = None,
                                    !.enc_gen = gens.enc,
                                    !.out = IF d.ok THEN d
                                            ELSE Raised("ConfigError", d.cause)]
                /\ seen' = seen \cup Mixed(ld.salt_gen, gens.enc)
    /\ UNCHANGED <<salt_file, enc_file, plain_file, env_pw, sv, gens>>
    /\ StepUnchanged

\* Lines 74-75: the fallback to the unencrypted file.
LoadReadPlain ==
    /\ ld.pc = "read_plain"
    /\ IF plain_file = None
       THEN LoadEnds(Raised("ConfigError", "FileNotFoundError"))
       ELSE LET d == JsonLoads(plain_file[1])
            IN  LoadEnds(IF d.ok THEN d ELSE Raised("ConfigError", d.cause))
    /\ UNCHANGED <<salt_file, enc_file, plain_file, env_pw, sv, gens, seen>>
    /\ StepUnchanged

\* The environment sets CONFIG_PASSWORD to "pw" or unsets it, between calls
\* of load_config.
StepSetEnv ==
    /\ ~LoadRunning
    /\ env_pw' = IF env_pw = None THEN Some("pw") ELSE None
    /\ UNCHANGED <<salt_file, enc_file, plain_file, sv, ld, gens, seen>>
    /\ StepUnchanged

\* One save_config call after another, no load_config.
NextSaveSteps ==
    \/ SaveStart \/ SaveWriteSalt \/ SaveEncrypt \/ SaveWriteEnc \/ SaveRemove
    \/ SaveWritePlain

SpecSaveSteps == Init /\ [][NextSaveSteps]_vars

\* The race of load_config with save_config: the saves are those that
\* rewrite the vault (a password is given, the dict is serializable).
RaceSaveStart == SaveStartWith({[a |-> JInt(1)]}, {Some("pw"), Some("other")})

NextRace ==
    \/ RaceSaveStart \/ SaveWriteSalt \/ SaveEncrypt \/ SaveWriteEnc \/ SaveRemove
    \/ LoadStart \/ LoadCheckSalt \/ LoadReadSalt \/ LoadReadEnc \/ LoadReadPlain
    \/ StepSetEnv

SpecRace == Init /\ [][NextRace]_vars

-----------------------------------------------------------------------------
(* Redaction of nested payloads: dicts inside dicts to a depth of          *)
(* MaxDepth, list values (empty, of a string, of a dict), strings that     *)
(* already hold '*'; and sanitize_sensitive_data applied to its own result.*)

MaxDepth == 3      \* dicts of the nested harness are nested at most MaxDepth deep

RedKeys == {<<"p", "a", "s", "s", "w", "o", "r", "d">>, <<"n", "a", "m", "e">>, <<"i", "t", "e", "m", "s">>, <<"A", "P", "I", "_", "K", "E", "Y">>}
RedStrings == {<<>>, <<"a", "b", "c", "d">>, <<"a", "b", "c", "d", "e">>, <<"a", "b", "c", "d", "e", "f", "g", "h">>, <<"a", "b", "*", "*", "*", "*", "g", "h">>}
RedLists ==
    {PyList(<<>>), PyList(<<PyStr(<<"a", "b", "c", "d", "e", "f", "g", "h">>)>>),
     PyList(<<PyDict(OneItem(<<"p", "a", "s", "s", "w", "o", "r", "d">>, PyStr(<<"a", "b", "c", "d", "e", "f", "g", "h">>)))>>)}
RedLeaves == {PyStr(x) : x \in RedStrings} \cup {JInt(1)} \cup RedLists

\* The dicts of one item nested at most n deep below the top level.
RECURSIVE NestedDicts(_)
NestedDicts(n) ==
    {OneItem(k, v) : k \in RedKeys,
                     v \in RedLeaves \cup (IF n = 0 THEN {}
                                           ELSE {PyDict(d) : d \in NestedDicts(n - 1)})}

\* Dicts of two items, each a leaf or a dict of one leaf.
TwoItems(k1, v1, k2, v2) == [x \in {k1, k2} |-> IF x = k1 THEN v1 ELSE v2]
PairDicts ==
    LET V == RedLeaves \cup {PyDict(d) : d \in NestedDicts(0)}
    IN  {TwoItems(<<"p", "a", "s", "s", "w", "o", "r", "d">>, v1, k2, v2) :
            k2 \in RedKeys \ {<<"p", "a", "s", "s", "w", "o", "r", "d">>}, v1 \in V, v2 \in V}

RedDicts == NestedDicts(MaxDepth) \cup PairDicts

\* sanitize_sensitive_data(data)
Redact ==
    \E data \in RedDicts :
        /\ san.op = "none"
        /\ san' = [op |-> "sanitize", data |-> data, out |-> sanitize_sensitive_data(data)]
        /\ UNCHANGED <<vaultVars, cipherVars, derived, sdVars, walkVars, api, ov, calls, stepVars, verifyVars>>

\* sanitize_sensitive_data(sanitize_sensitive_data(data)): the second call
\* is given what the first returned.
RedactAgain ==
    /\ san.op = "sanitize"
    /\ san' = [op |-> "again", data |-> san.data, out |-> san.out,
               again |-> sanitize_sensitive_data(san.out)]
    /\ UNCHANGED <<vaultVars, cipherVars, derived, sdVars, walkVars, api, ov, calls, stepVars, verifyVars>>

NextRedact == Redact \/ RedactAgain

SpecRedact == Init /\ [][NextRedact]_vars

-----------------------------------------------------------------------------
(* sanitize_dict statement by statement, on objects with an identity.  The *)
(* heap is a sequence of objects, the address of an object its index; a    *)
(* dict is the sequence of its items in insertion order, a list the        *)
(* sequence of its elements.  A value held by a dict or a list is a str or *)
(* an int (immutable) or the address of a dict or a list.                  *)

MaxSteps == 8      \* a sanitize call of the harness runs at most MaxSteps loop iterations

Ref(a) == [t |-> "ref", a |-> a]
DictObj(items) == [t |-> "dict", items |-> items]
ListObj(items) == [t |-> "list", items |-> items]

\* isinstance(value, dict)
IsDict(h, value) == value.t = "ref" /\ h[value.a].t = "dict"

\* obj[key] = value: the item of that key is replaced, a new key is added
\* at the end.
SetItem(obj, key, value) ==
    IF \E i \in DOMAIN obj.items : obj.items[i][1] = key
    THEN DictObj([i \in DOMAIN obj.items |->
                     IF obj.items[i][1] = key THEN <<key, value>> ELSE obj.items[i]])
    ELSE DictObj(Append(obj.items, <<key, value>>))

\* A faulty variant: result is d itself.
NewResult_InPlace(h, d) == [heap |-> h, addr |-> d]

\* result = {}: a new object.
NewResult(h, d) == [heap |-> Append(h, DictObj(<<>>)), addr |-> Len(h) + 1]

\* A faulty variant: the loop stays on the same item.
NextItem_Stuck(frame) == frame

\* for key, value in d.items(): on to the next item.
NextItem(frame) == [frame EXCEPT !.i = @ + 1]

\* The value an address stands for, as json.dump writes it.
RECURSIVE Deref(_, _)
Deref(h, value) ==
    IF value.t # "ref" THEN value
    ELSE LET obj == h[value.a]
         IN  IF obj.t = "dict"
             THEN PyDict([k \in {obj.items[i][1] : i \in DOMAIN obj.items} |->
                            Deref(h, (CHOOSE it \in {obj.items[i] : i \in DOMAIN obj.items} :
                                         it[1] = k)[2])])
             ELSE PyList([i \in DOMAIN obj.items |-> Deref(h, obj.items[i])])

\* The payloads of the harness, the top-level dict at address 1.
WalkKeys == {<<"p", "a", "s", "s", "w", "o", "r", "d">>, <<"n", "a", "m", "e">>}
WalkValues == {PyStr(<<"a", "b", "c", "d", "e", "f", "g", "h">>), PyStr(<<"a", "b">>), JInt(1)}
WalkHeaps ==
    {<<DictObj(<<>>)>>}
    \cup {<<DictObj(<<<<k, v>>>>)>> : k \in WalkKeys, v \in WalkValues}
    \cup {<<DictObj(<<<<<<"i", "d">>, JInt(1)>>, <<k1, Ref(2)>>>>), DictObj(<<<<k2, v>>>>)>> :
             k1 \in WalkKeys, k2 \in WalkKeys, v \in WalkValues}
    \cup {<<DictObj(<<<<k1, Ref(2)>>>>),
            DictObj(<<<<k2, Ref(3)>>, <<<<"n", "a", "m", "e">>, v>>>>),
            DictObj(<<<<<<"p", "a", "s", "s", "w", "o", "r", "d">>, v>>>>)>> :
             k1 \in WalkKeys, k2 \in WalkKeys \ {<<"n", "a", "m", "e">>}, v \in WalkValues}
    \cup {<<DictObj(<<<<<<"i", "t", "e", "m", "s">>, Ref(2)>>>>), ListObj(<<Ref(3)>>),
            DictObj(<<<<<<"p", "a", "s", "s", "w", "o", "r", "d">>, v>>>>)>> : v \in WalkValues}

Walking == wk.pc = "run"
Top == wk.stack[Len(wk.stack)]

\* sanitize_sensitive_data(data) is called, by the caller or by secure_log:
\* sanitize_dict(data) starts with result = {}.
WalkStart ==
    \E h \in WalkHeaps, via \in {"sanitize", "secure_log"} :
        /\ wk.pc = "idle"
        /\ LET new == NewResult(h, 1)
           IN  /\ heap' = new.heap
               /\ wk' = [wk EXCEPT !.pc = "run", !.via = via, !.data = 1, !.before = h,
                                   !.stack = <<[d |-> 1, result |-> new.addr, i |-> 1]>>,
                                   !.visits = <<1>>]
        /\ UNCHANGED <<vaultVars, cipherVars, derived, sdVars, calls, stepVars, verifyVars,
                       san, api, ov>>

\* One turn of the loop of sanitize_dict (139-145).
WalkItem ==
    /\ Walking /\ Top.i <= Len(heap[Top.d].items) /\ wk.steps < MaxSteps
    /\ LET n == Len(wk.stack)
           key == heap[Top.d].items[Top.i][1]
           value == heap[Top.d].items[Top.i][2]
       IN  IF IsDict(heap, value)
           THEN LET new == NewResult(heap, value.a)
                IN  /\ heap' = new.heap
                    /\ wk' = [wk EXCEPT !.stack = Append(@, [d |-> value.a,
                                                             result |-> new.addr, i |-> 1]),
                                        !.visits = Append(@, value.a),
                                        !.steps = @ + 1]
           ELSE /\ heap' = [heap EXCEPT ![Top.result] =
                               SetItem(@, key,
                                       IF value.t = "str"
                                          /\ \E field \in sensitive_fields :
                                                Contains(field, Lower(key))
                                       THEN PyStr(mask_value(value.c))
                                       ELSE value)]
                /\ wk' = [wk EXCEPT !.stack[n] = NextItem(@), !.steps = @ + 1]
    /\ UNCHANGED <<vaultVars, cipherVars, derived, sdVars, calls, stepVars, verifyVars,
                   san, api, ov>>

\* return result (146): to the sanitize_dict that called, which stores it
\* under the key it is at (141), or to sanitize_sensitive_data (148).
WalkReturn ==
    /\ Walking /\ Top.i > Len(heap[Top.d].items)
    /\ LET n == Len(wk.stack)
       IN  IF n = 1
           THEN /\ wk' = [wk EXCEPT !.stack = <<>>, !.out = Top.result,
                                    !.pc = IF wk.via = "secure_log" THEN "stamp" ELSE "done"]
                /\ UNCHANGED heap
           ELSE LET caller == wk.stack[n - 1]
                    key == heap[caller.d].items[caller.i][1]
                IN  /\ heap' = [heap EXCEPT ![caller.result] =
                                    SetItem(@, key, Ref(Top.result))]
                    /\ wk' = [wk EXCEPT !.stack =
                                 [SubSeq(wk.stack, 1, n - 1) EXCEPT ![n - 1] = NextItem(@)]]
    /\ UNCHANGED <<vaultVars, cipherVars, derived, sdVars, calls, stepVars, verifyVars,
                   san, api, ov>>

\* secure_log after sanitize_sensitive_data returned (157-162): the
\* timestamp is stored in the result, the result appended to the log file.
SecureLogWrite ==
    /\ wk.pc = "stamp"
    /\ heap' = [heap EXCEPT ![wk.out] =
                   SetItem(@, <<"t", "i", "m", "e", "s", "t", "a", "m", "p">>, PyStr(<<"n", "o", "w">>))]
    /\ wk' = [wk EXCEPT !.pc = "done", !.log = Append(@, Deref(heap', Ref(wk.out)))]
    /\ UNCHANGED <<vaultVars, cipherVars, derived, sdVars, calls, stepVars, verifyVars,
                   san, api, ov>>

NextWalk == WalkStart \/ WalkItem \/ WalkReturn \/ SecureLogWrite

SpecWalk == Init /\ [][NextWalk]_vars

\* The interpreter runs a call that has started until it returns.
SpecWalkFair == SpecWalk /\ WF_vars(WalkItem \/ WalkReturn \/ SecureLogWrite)

-----------------------------------------------------------------------------
(* One save_config call and one load_config call on a path that holds a    *)
(* valid vault, statement by statement.  open(path, "wb") empties the file *)
(* before the content is written at close, so a reader may find it empty.  *)

\* The dict the vault holds at first, saved with the password "pw", and the
\* dicts and passwords of the save_config call.
OvPrior == [a |-> JInt(1)]
OvPriorToken == FernetEncrypt(PBKDF2("pw", 1), JsonDumps(OvPrior), 0, 1)
OvConfigs == {[a |-> JStr("1")], [b |-> JInt(1)], [a |-> PySet]}
OvPasswords == {None, Some(""), Some("pw"), Some("other")}

\* An empty file: no salt bytes, no token characters, no JSON text.
EmptySalt == 0
EmptyToken == <<>>
EmptyText == [wf |-> FALSE, body |-> <<>>]

\* What save_config(OvPrior, path, "pw") left behind, for the calls of
\* config_utils, or what secure_save(OvPrior, filepath, "pw") left behind,
\* for the calls of secure_data_utils.
InitOverlap ==
    \/ /\ ov = OvIdle
       /\ salt_file = Some(1) /\ enc_file = Some(OvPriorToken) /\ plain_file = None
       /\ env_pw \in {None, Some("pw"), Some("other")}
       /\ res = NoCall /\ last_save = Some([config |-> OvPrior, pw |-> Some("pw")])
       /\ saves_only = TRUE
       /\ InitHarness /\ InitSD /\ InitCalls
    \/ /\ ov = [OvIdle EXCEPT !.mod = "secure_data_utils"]
       /\ sd_salt = Some(1) /\ sd_data = Some(OvPriorToken) /\ sd_res = NoCall
       /\ InitVault /\ InitHarness /\ InitCalls

OvUnchanged ==
    UNCHANGED <<env_pw, res, last_save, saves_only, cipherVars, derived, sdVars, calls,
                stepVars, verifyVars, san, walkVars, api>>

DvUnchanged ==
    UNCHANGED <<vaultVars, cipherVars, derived, sd_res, calls, stepVars, verifyVars, san,
                walkVars, api>>

\* A faulty variant: the token is built before the salt file is opened.
OvSaveOrder_EncryptFirst ==
    <<"encrypt", "open_salt", "write_salt", "open_enc", "write_enc", "remove">>

\* The statements of the encrypting branch of save_config in source order,
\* each open and each write a step of its own.
OvSaveOrder ==
    <<"open_salt", "write_salt", "encrypt", "open_enc", "write_enc", "remove">>

OvAfter(pc) ==
    LET i == CHOOSE j \in DOMAIN OvSaveOrder : OvSaveOrder[j] = pc
    IN  OvSaveOrder[i + 1]

OvSaveEnds(out) == ov' = [ov EXCEPT !.sv.pc = "done", !.sv.out = out]

\* save_config(config, path, password) is called: the test of password
\* (87) and generate_key (89).
OvSaveStart ==
    \E config \in OvConfigs, password \in OvPasswords, rnd \in Salts :
        /\ ov.mod = "config_utils" /\ ov.sv.pc = "idle"
        /\ ov' = [ov EXCEPT !.sv =
                     IF Truthy(password)
                     THEN LET ks == generate_key(password[1], None, rnd)
                          IN  [@ EXCEPT !.pc = OvSaveOrder[1], !.config = config,
                                        !.pw = password, !.key = Some(ks[1]),
                                        !.salt = ks[2]]
                     ELSE [@ EXCEPT !.pc = "open_plain", !.config = config,
                                    !.pw = password]]
        /\ UNCHANGED <<salt_file, enc_file, plain_file>>
        /\ OvUnchanged

\* open(salt_path, "wb") (92)
OvOpenSalt ==
    /\ ov.sv.pc = "open_salt"
    /\ salt_file' = Some(EmptySalt)
    /\ ov' = [ov EXCEPT !.sv.pc = OvAfter("open_salt")]
    /\ UNCHANGED <<enc_file, plain_file>>
    /\ OvUnchanged

\* f.write(salt) and the close of the file (93-94)
OvWriteSalt ==
    /\ ov.sv.pc = "write_salt"
    /\ salt_file' = Some(ov.sv.salt)
    /\ ov' = [ov EXCEPT !.sv.pc = OvAfter("write_salt")]
    /\ UNCHANGED <<enc_file, plain_file>>
    /\ OvUnchanged

\* encrypt_config(config, key) (97): TypeError on a dict json.dumps refuses.
OvEncrypt ==
    \E ts \in Times, iv \in IVs :
        /\ ov.sv.pc = "encrypt"
        /\ LET e == encrypt_config(ov.sv.config, ov.sv.key[1], ts, iv)
           IN  IF e.ok
               THEN ov' = [ov EXCEPT !.sv.pc = OvAfter("encrypt"), !.sv.tok = e.value]
               ELSE OvSaveEnds(Raised("ConfigError", e.cause))
        /\ UNCHANGED <<salt_file, enc_file, plain_file>>
        /\ OvUnchanged

\* open(encrypted_path, "wb") (98): the file is emptied, or open refuses
\* (OSError) and the file is as it was.
OvOpenEnc ==
    \E refused \in BOOLEAN :
        /\ ov.sv.pc = "open_enc"
        /\ IF refused
           THEN /\ OvSaveEnds(Raised("ConfigError", "OSError"))
                /\ UNCHANGED enc_file
           ELSE /\ enc_file' = Some(EmptyToken)
                /\ ov' = [ov EXCEPT !.sv.pc = OvAfter("open_enc")]
        /\ UNCHANGED <<salt_file, plain_file>>
        /\ OvUnchanged

\* f.write(encrypted_data) and the close of the file (99-100)
OvWriteEnc ==
    /\ ov.sv.pc = "write_enc"
    /\ enc_file' = ov.sv.tok
    /\ ov' = [ov EXCEPT !.sv.pc = OvAfter("write_enc")]
    /\ UNCHANGED <<salt_file, plain_file>>
    /\ OvUnchanged

\* if os.path.exists(config_path): os.remove(config_path) (103-104)
OvRemove ==
    /\ ov.sv.pc = "remove"
    /\ plain_file' = None
    /\ OvSaveEnds(Returned(None))
    /\ UNCHANGED <<salt_file, enc_file>>
    /\ OvUnchanged

\* open(config_path, "w") of the branch without a password (107)
OvOpenPlain ==
    /\ ov.sv.pc = "open_plain"
    /\ plain_file' = Some(EmptyText)
    /\ ov' = [ov EXCEPT !.sv.pc = "write_plain"]
    /\ UNCHANGED <<salt_file, enc_file>>
    /\ OvUnchanged

\* json.dump(config, f, indent=4) and the close of the file (108)
OvWritePlain ==
    /\ ov.sv.pc = "write_plain"
    /\ IF Serializable(ov.sv.config)
       THEN /\ plain_file' = Some(JsonDumps(ov.sv.config))
            /\ OvSaveEnds(Returned(None))
       ELSE /\ plain_file' = Some(JsonDumpPartial(ov.sv.config))
            /\ OvSaveEnds(Raised("ConfigError", "TypeError"))
    /\ UNCHANGED <<salt_file, enc_file>>
    /\ OvUnchanged

OvLoadEnds(out) == ov' = [ov EXCEPT !.ld.pc = "done", !.ld.out = out]

\* load_config(path) is called: os.path.exists(encrypted_path) (53) and
\* os.getenv (55-57), or the plaintext file of the other branch (74-75).
OvLoadStart ==
    /\ ov.mod = "config_utils" /\ ov.ld.pc = "idle"
    /\ IF enc_file # None
       THEN IF Truthy(env_pw)
            THEN ov' = [ov EXCEPT !.ld.pc = "check_salt", !.ld.pw = env_pw,
                                  !.ld.late = (ov.sv.pc = "done")]
            ELSE OvLoadEnds(Raised("ConfigError",
                                   "CONFIG_PASSWORD environment variable not set"))
       ELSE IF plain_file = None
            THEN OvLoadEnds(Raised("ConfigError", "FileNotFoundError"))
            ELSE LET d == JsonLoads(plain_file[1])
                 IN  OvLoadEnds(IF d.ok THEN d ELSE Raised("ConfigError", d.cause))
    /\ UNCHANGED <<salt_file, enc_file, plain_file>>
    /\ OvUnchanged

\* os.path.exists(salt_path) (61-62)
OvLoadCheckSalt ==
    /\ ov.ld.pc = "check_salt"
    /\ IF salt_file = None
       THEN OvLoadEnds(Raised("ConfigError", "Salt file not found"))
       ELSE ov' = [ov EXCEPT !.ld.pc = "read_salt"]
    /\ UNCHANGED <<salt_file, enc_file, plain_file>>
    /\ OvUnchanged

\* salt = f.read() (64-65)
OvLoadReadSalt ==
    /\ ov.ld.pc = "read_salt"
    /\ IF salt_file = None
       THEN OvLoadEnds(Raised("ConfigError", "FileNotFoundError"))
       ELSE ov' = [ov EXCEPT !.ld.pc = "read_enc", !.ld.salt = salt_file]
    /\ UNCHANGED <<salt_file, enc_file, plain_file>>
    /\ OvUnchanged

\* generate_key(password, salt), the read of the token and decrypt_config
\* (68-71)
OvLoadReadEnc ==
    /\ ov.ld.pc = "read_enc"
    /\ IF enc_file = None
       THEN OvLoadEnds(Raised("ConfigError", "FileNotFoundError"))
       ELSE LET key == generate_key(ov.ld.pw[1], ov.ld.salt, 1)[1]
                d   == decrypt_config(enc_file[1], key)
            IN  OvLoadEnds(IF d.ok THEN d ELSE Raised("ConfigError", d.cause))
    /\ UNCHANGED <<salt_file, enc_file, plain_file>>
    /\ OvUnchanged

\* secure_save(data, filepath, password) is called: derive_key and
\* encrypt_data come before either file is opened (61-64).
DvSaveStart ==
    \E data \in OvConfigs, password \in {"pw", "other"}, rnd \in Salts,
       ts \in Times, iv \in IVs :
        /\ ov.mod = "secure_data_utils" /\ ov.sv.pc = "idle"
        /\ LET ks == generate_key(password, None, rnd)
               e  == encrypt_data(data, ks[1], ts, iv)
           IN  ov' = [ov EXCEPT !.sv =
                        [@ EXCEPT !.pc = IF e.ok THEN "dv_open_salt" ELSE "done",
                                  !.config = data, !.pw = Some(password),
                                  !.key = Some(ks[1]), !.salt = ks[2], !.tok = e.value,
                                  !.out = IF e.ok THEN Returned(None)
                                          ELSE Raised("SecureDataError", e.cause)]]
        /\ UNCHANGED <<sd_salt, sd_data>>
        /\ DvUnchanged

\* open(salt_path, "wb") (68)
DvOpenSalt ==
    /\ ov.sv.pc = "dv_open_salt"
    /\ sd_salt' = Some(EmptySalt)
    /\ ov' = [ov EXCEPT !.sv.pc = "dv_write_salt"]
    /\ UNCHANGED sd_data
    /\ DvUnchanged

\* f.write(salt) and the close of the file (69)
DvWriteSalt ==
    /\ ov.sv.pc = "dv_write_salt"
    /\ sd_salt' = Some(ov.sv.salt)
    /\ ov' = [ov EXCEPT !.sv.pc = "dv_open_data"]
    /\ UNCHANGED sd_data
    /\ DvUnchanged

\* open(filepath, "wb") (72)
DvOpenData ==
    /\ ov.sv.pc = "dv_open_data"
    /\ sd_data' = Some(EmptyToken)
    /\ ov' = [ov EXCEPT !.sv.pc = "dv_write_data"]
    /\ UNCHANGED sd_salt
    /\ DvUnchanged

\* f.write(encrypted_data) and the close of the file (73)
DvWriteData ==
    /\ ov.sv.pc = "dv_write_data"
    /\ sd_data' = ov.sv.tok
    /\ OvSaveEnds(Returned(None))
    /\ UNCHANGED sd_salt
    /\ DvUnchanged

\* secure_load(filepath, password) is called: os.path.exists(salt_path)
\* (84-85)
DvLoadStart ==
    \E password \in {"pw", "other"} :
        /\ ov.mod = "secure_data_utils" /\ ov.ld.pc = "idle"
        /\ IF sd_salt = None
           THEN OvLoadEnds(Raised("SecureDataError", "Salt file not found"))
           ELSE ov' = [ov EXCEPT !.ld.pc = "dv_read_salt", !.ld.pw = Some(password),
                                 !.ld.late = (ov.sv.pc = "done")]
        /\ UNCHANGED <<sd_salt, sd_data>>
        /\ DvUnchanged

\* salt = f.read() (87-88)
DvLoadReadSalt ==
    /\ ov.ld.pc = "dv_read_salt"
    /\ IF sd_salt = None
       THEN OvLoadEnds(Raised("SecureDataError", "FileNotFoundError"))
       ELSE ov' = [ov EXCEPT !.ld.pc = "dv_read_data", !.ld.salt = sd_salt]
    /\ UNCHANGED <<sd_salt, sd_data>>
    /\ DvUnchanged

\* derive_key(password, salt), the read of the token and decrypt_data
\* (91-97)
DvLoadReadData ==
    /\ ov.ld.pc = "dv_read_data"
    /\ IF sd_data = None
       THEN OvLoadEnds(Raised("SecureDataError", "FileNotFoundError"))
       ELSE OvLoadEnds(decrypt_data(sd_data[1],
                                    generate_key(ov.ld.pw[1], ov.ld.salt, 1)[1]))
    /\ UNCHANGED <<sd_salt, sd_data>>
    /\ DvUnchanged

NextOverlap ==
    \/ OvSaveStart \/ OvOpenSalt \/ OvWriteSalt \/ OvEncrypt \/ OvOpenEnc
    \/ OvWriteEnc \/ OvRemove \/ OvOpenPlain \/ OvWritePlain
    \/ OvLoadStart \/ OvLoadCheckSalt \/ OvLoadReadSalt \/ OvLoadReadEnc
    \/ DvSaveStart \/ DvOpenSalt \/ DvWriteSalt \/ DvOpenData \/ DvWriteData
    \/ DvLoadStart \/ DvLoadReadSalt \/ DvLoadReadData

SpecOverlap == InitOverlap /\ [][NextOverlap]_vars

-----------------------------------------------------------------------------
(* The reading operations next to each other: load_config and secure_load  *)
(* on their files, verify_data_integrity called before and after the files *)
(* come and go.                                                            *)

\* Some file of a vault exists: salt, token or plaintext of config_utils,
\* salt or token of secure_data_utils.
AnyVault ==
    \/ salt_file # None \/ enc_file # None \/ plain_file # None
    \/ sd_salt # None \/ sd_data # None

\* The calls that put files there and take them away, with one password.
\* A run works on the files of one module: those of the other stay absent.
RoSaveConfig == InitSD /\ SaveConfig /\ res'.pw = Some("pw")
RoLoadConfig == InitSD /\ LoadConfig
RoSetEnv == InitSD /\ SetEnv /\ env_pw' \in {None, Some("pw")}
RoRemoveFile == InitSD /\ RemoveFile
RoWriteLegacy == InitSD /\ WriteLegacy
RoSecureSave == InitVault /\ SecureSave /\ sd_res'.pw = "pw"
RoSecureLoad == InitVault /\ SecureLoad /\ sd_res'.pw = "pw"
RoSDRemoveFile == InitVault /\ SDRemoveFile

\* DATA_INTEGRITY_KEY is set or unset before the first call of
\* verify_data_integrity.
RoSetIntegrityKey ==
    /\ vres.op = "none" /\ int_key = None
    /\ int_key' = Some("s1")
    /\ UNCHANGED <<vres, signed, vaultVars, cipherVars, derived, sdVars, walkVars, api, ov,
                   calls, stepVars, san>>

\* verify_data_integrity(data, signature) is called, and later called again
\* with the same arguments.
RoVerifyData == <<<<"a", JInt(1)>>>>
RoVerify ==
    \E sig \in {JunkSignature, sign(RoVerifyData, "s1")} :
        /\ vres.op \in {"none", "verify"}
        /\ vres.op = "verify" => vres.n = 1 /\ vres.sig = sig
        /\ vres' = [op |-> "verify", n |-> IF vres.op = "none" THEN 1 ELSE 2,
                    data |-> RoVerifyData, sig |-> sig, key |-> int_key,
                    out |-> verify_data_integrity(RoVerifyData, sig, int_key),
                    vault |-> AnyVault,
                    first |-> IF vres.op = "none" THEN None
                              ELSE Some([out |-> vres.out, vault |-> vres.vault])]
        /\ UNCHANGED <<int_key, signed, vaultVars, cipherVars, derived, sdVars, walkVars,
                       api, ov, calls, stepVars, san>>

NextReadOnly ==
    \/ RoSaveConfig \/ RoLoadConfig \/ RoSetEnv \/ RoRemoveFile \/ RoWriteLegacy
    \/ RoSecureSave \/ RoSecureLoad \/ RoSDRemoveFile
    \/ RoSetIntegrityKey \/ RoVerify

SpecReadOnly == Init /\ [][NextReadOnly]_vars

-----------------------------------------------------------------------------
(* make_api_request (api_utils.py): the retry loop, one turn of the loop   *)
(* per step.  What requests.get brings back is drawn by the step.          *)

MaxRetries == 4    \* make_api_request is called with max_retries up to MaxRetries

\* What one requests.get(...) ends in: a response with a status code and a
\* body that response.json() parses or refuses, or an exception.
Response(status, json) == [kind |-> "response", status |-> status, json |-> json]
RequestException == [kind |-> "exception"]
JsonBody == Some([a |-> JInt(1)])
Outcomes ==
    {Response(200, JsonBody), Response(200, None), Response(429, None),
     Response(404, None), Response(500, JsonBody), RequestException}

PyNone == [t |-> "None"]

\* A faulty variant: every status other than 200 is tried again.
AfterRequest_RetryAll(outcome, attempt, max_retries) ==
    IF outcome.kind = "response" /\ outcome.status = 200 /\ outcome.json # None
    THEN [do |-> "return", value |-> outcome.json[1], sleeps |-> <<"rate_limit">>]
    ELSE IF outcome.kind = "response" /\ outcome.status # 200
    THEN [do |-> "continue", value |-> PyNone, sleeps |-> <<"retry_delay", "rate_limit">>]
    ELSE IF attempt < max_retries - 1
    THEN [do |-> "continue", value |-> PyNone, sleeps |-> <<"retry_delay", "rate_limit">>]
    ELSE [do |-> "return", value |-> PyNone, sleeps |-> <<"rate_limit">>]

\* The body of the loop (31-52) once requests.get has ended in outcome:
\* what the turn does and the time.sleep calls it makes, the one of the
\* finally clause last.  An exception of response.json() is caught like one
\* of requests.get.
AfterRequest(outcome, attempt, max_retries) ==
    IF outcome.kind = "response" /\ outcome.status = 200 /\ outcome.json # None
    THEN [do |-> "return", value |-> outcome.json[1], sleeps |-> <<"rate_limit">>]
    ELSE IF outcome.kind = "response" /\ outcome.status = 429
    THEN [do |-> "continue", value |-> PyNone, sleeps |-> <<"retry_delay", "rate_limit">>]
    ELSE IF outcome.kind = "response" /\ outcome.status # 200
    THEN [do |-> "return", value |-> PyNone, sleeps |-> <<"rate_limit">>]
    ELSE IF attempt < max_retries - 1
    THEN [do |-> "continue", value |-> PyNone, sleeps |-> <<"retry_delay", "rate_limit">>]
    ELSE [do |-> "return", value |-> PyNone, sleeps |-> <<"rate_limit">>]

ApiUnchanged ==
    UNCHANGED <<vaultVars, cipherVars, derived, sdVars, calls, stepVars, verifyVars, san,
                walkVars, ov>>

\* make_api_request(url, headers, max_retries=n) is called: range(n) (30),
\* and return None (54) when it is empty.
ApiCall ==
    \E n \in 0..MaxRetries :
        /\ api.pc = "idle"
        /\ api' = [api EXCEPT !.max_retries = n,
                              !.pc = IF n = 0 THEN "done" ELSE "request",
                              !.out = IF n = 0 THEN Some(PyNone) ELSE None]
        /\ ApiUnchanged

\* One turn of the loop: requests.get (32) ends, the turn returns or goes
\* on to the next attempt; after the last attempt, return None (54).
ApiRequest ==
    \E outcome \in Outcomes :
        /\ api.pc = "request"
        /\ LET r == AfterRequest(outcome, api.attempt, api.max_retries)
               ends == r.do = "return" \/ api.attempt + 1 >= api.max_retries
           IN  api' = [api EXCEPT !.requests = Append(@, outcome),
                                  !.sleeps = @ \o r.sleeps,
                                  !.attempt = IF r.do = "continue" THEN @ + 1 ELSE @,
                                  !.pc = IF ends THEN "done" ELSE "request",
                                  !.out = IF ends THEN Some(r.value) ELSE None]
        /\ ApiUnchanged

NextApi == ApiCall \/ ApiRequest

SpecApi == Init /\ [][NextApi]_vars

\* Every request is answered or fails: requests.get returns or raises.
SpecApiFair == SpecApi /\ WF_vars(ApiRequest)

-----------------------------------------------------------------------------
(* Properties.  The code has one exception class per module (ConfigError,  *)
(* SecureDataError); the failure kinds of the specification are told apart *)
(* by what was raised first (res.out.cause):                               *)
(*   AuthenticationError, MalformedTokenError : "InvalidToken"             *)
(*   MissingSecretError   : "CONFIG_PASSWORD environment variable not set" *)
(*   VaultCorruptionError : "Salt file not found"                          *)
(*   NotFoundError        : "FileNotFoundError"                            *)

Loaded == res.op = "load"
Failed(cause) == ~res.out.ok /\ res.out.value = None /\ res.out.cause = cause

\* C1: after a sequence of successfully completed save calls on one path,
\* load with the password of the most recent save returns exactly the
\* payload of the most recent save.
C1_LoadReturnsLastSave ==
    (/\ Loaded
     /\ saves_only
     /\ last_save # None
     /\ last_save[1].pw # None
     /\ res.pw = last_save[1].pw)
    => res.out = Returned(last_save[1].config)

\* C2: after a successful save(path, payload, pw), load with a different
\* password pw2 fails with AuthenticationError and returns no payload.
\* (Stated for pw2 a supplied, non-empty password.)
C2_OtherPasswordFails ==
    (/\ Loaded
     /\ last_save # None
     /\ last_save[1].pw # None
     /\ Truthy(res.pw)
     /\ res.pw # last_save[1].pw)
    => Failed("InvalidToken")

\* What decrypting {path}.enc under the key of (CONFIG_PASSWORD, {path}.salt) gives.
FromToken == decrypt_config(enc_file[1], PBKDF2(res.pw[1], salt_file[1]))

\* C7 as claimed: load returns the content of the legacy plaintext file
\* only where neither {path}.enc nor {path}.salt exists; where {path}.enc
\* exists the plaintext file is never read and the result comes from
\* decrypting {path}.enc.
C7_LegacyOnlyWhenNeither ==
    Loaded =>
      /\ (res.out.ok /\ "plain" \in res.reads) => (~res.pre.enc /\ ~res.pre.salt)
      /\ res.pre.enc =>
           /\ "plain" \notin res.reads
           /\ res.out.ok => (res.reads = {"salt", "enc"} /\ res.out = FromToken)

\* C7 as amended: load returns the content of the legacy plaintext file
\* only where {path}.enc does not exist (whether or not {path}.salt does);
\* where {path}.enc exists the plaintext file is never read and the result
\* comes from decrypting {path}.enc.
C7_LegacyOnlyWithoutEnc ==
    Loaded =>
      /\ ("plain" \in res.reads) => ~res.pre.enc
      /\ res.pre.enc =>
           /\ "plain" \notin res.reads
           /\ res.out.ok => (res.reads = {"salt", "enc"} /\ res.out = FromToken)
           /\ ~res.out.ok => res.out.value = None

\* C7 witness: a load that returned the legacy content beside a salt file.
C7_Witness ==
    /\ Loaded /\ res.out.ok /\ res.reads = {"plain"}
    /\ res.pre.salt /\ ~res.pre.enc

\* C8 as claimed: whenever exactly one of {path}.enc and {path}.salt
\* exists, load fails with VaultCorruptionError and returns no payload.
C8_OneOfPairFails ==
    (Loaded /\ res.pre.enc # res.pre.salt) => Failed("Salt file not found")

\* C8 as amended: whenever {path}.enc exists, {path}.salt does not and the
\* vault password is supplied, load fails with VaultCorruptionError and
\* returns no payload, whether or not a legacy plaintext file exists.
C8_EncWithoutSaltFails ==
    (Loaded /\ res.pre.enc /\ ~res.pre.salt /\ Truthy(res.pw))
    => (Failed("Salt file not found") /\ res.reads = {})

C8_Witness ==
    /\ Loaded /\ res.pre.enc /\ ~res.pre.salt /\ res.pre.plain /\ Truthy(res.pw)
    /\ Failed("Salt file not found")

MissingSecret == "CONFIG_PASSWORD environment variable not set"

\* C10: when {path}.enc exists and CONFIG_PASSWORD is unset or empty, load
\* fails with MissingSecretError before reading the salt or the token; no
\* other situation (wrong password, no vault) gives that outcome.
C10_MissingSecretFirst ==
    Loaded =>
      /\ (res.pre.enc /\ ~Truthy(res.pw)) => (Failed(MissingSecret) /\ res.reads = {})
      /\ (res.out.cause = MissingSecret) => (res.pre.enc /\ ~Truthy(res.pw))
      /\ (res.pre.enc /\ res.pre.salt /\ Truthy(res.pw) /\ ~res.out.ok)
           => res.out.cause = "InvalidToken"
      /\ ~res.pre.enc /\ ~res.pre.plain => res.out.cause = "FileNotFoundError"

C10_Witness ==
    /\ Loaded /\ res.pre.enc /\ res.pre.salt /\ res.pw = Some("")
    /\ Failed(MissingSecret) /\ res.reads = {}

\* C13: after every successful save(path, payload, password), no
\* unencrypted legacy payload file exists at {path}: a plaintext file
\* present before the save has been deleted.
C13_NoPlaintextAfterSave ==
    (res.op = "save" /\ res.out.ok /\ res.pw # None) => plain_file = None

\* The strings that stand in the clear in a JSON text.
ClearStrings(text) ==
    {text.body[k][2] : k \in {j \in DOMAIN text.body : Len(text.body[j]) = 3}}

\* The passwords the vault has been called with or finds in the environment.
NonEmptyPasswords == Passwords \ {""}

\* C15: after any sequence of save and load operations, no file written by
\* the vault contains the password: the salt file holds the bytes drawn from
\* os.urandom, the token file holds the version, the timestamp, the IV and a
\* ciphertext and a tag that name the password only inside the derived key,
\* and the plaintext file holds the payload's own strings.
C15_PasswordNotOnDisk ==
    /\ salt_file # None => salt_file[1] \in Salts
    /\ enc_file # None =>
          LET t == enc_file[1]
          IN  /\ t[1] = B64Char(FERNET_VERSION, 0)
              /\ t[2].v \in Times /\ t[3].v \in IVs
              /\ \E k \in {PBKDF2(p, x) : p \in NonEmptyPasswords, x \in Salts},
                    c \in {x \in VaultConfigs : Serializable(x)} :
                     /\ t[4].v = AESEncrypt(k, t[3].v, JsonDumps(c))
                     /\ t[5].v = HMAC(k, t[1].v, t[2].v, t[3].v, t[4].v)
    /\ plain_file # None => ClearStrings(plain_file[1]) \cap NonEmptyPasswords = {}

\* C15 witness: a load under "pw" has just decrypted the vault, and a
\* plaintext file with a string in it stands beside the vault.
C15_Witness ==
    /\ Loaded /\ res.out.ok /\ res.reads = {"salt", "enc"} /\ res.pw = Some("pw")
    /\ plain_file # None /\ ClearStrings(plain_file[1]) # {}

-----------------------------------------------------------------------------
(* Properties of the cipher functions (SpecCipher) *)

Decrypted == dres.op = "decrypt"
SameKey == dres.key = tok_src[1].key
DecryptFailed ==
    /\ dres.config = Raised("InvalidToken", "InvalidToken")
    /\ dres.data = Raised("SecureDataError", "InvalidToken")
DecryptGave(config) ==
    /\ dres.config = Returned(config)
    /\ dres.data = Returned(config)

\* C3: for every payload P and every key k, decrypt(k, encrypt(k, P))
\* returns P.
C3_RoundTrip ==
    (Decrypted /\ tok_mod = 0 /\ SameKey) => DecryptGave(tok_src[1].config)

C3_Witness ==
    /\ Decrypted /\ tok_mod = 0 /\ SameKey
    /\ tok_src[1].config = [a |-> JStr("1"), b |-> JInt(1)]
    /\ dres.config.ok

\* C4: for every payload P and keys k1 # k2, decrypt(k2, encrypt(k1, P))
\* fails with AuthenticationError and never returns a payload.
C4_OtherKeyFails ==
    (Decrypted /\ tok_mod = 0 /\ ~SameKey) => DecryptFailed

C4_Witness ==
    /\ Decrypted /\ tok_mod = 0 /\ ~SameKey
    /\ tok_src[1].key = PBKDF2("pw", 1) /\ dres.key = PBKDF2("", 1)
    /\ ~dres.config.ok

\* C5 as claimed: after any single-position modification of a token,
\* decrypt with the correct key fails (AuthenticationError or
\* MalformedTokenError) and returns no payload.
C5_ModifiedTokenFails ==
    (Decrypted /\ tok_mod # 0 /\ SameKey) => DecryptFailed

\* The modified text still decodes to the bytes the token was made of.
SameBytes ==
    LET now == urlsafe_b64decode(tok[1])
    IN  now.ok /\ now.bytes = urlsafe_b64decode(tok_src[1].token).bytes

\* C5 as amended: after any single-position modification of a token,
\* decrypt with the correct key fails (AuthenticationError or
\* MalformedTokenError), or, when the modified text still base64-decodes to
\* the same bytes, returns the payload that was encrypted; it never returns
\* a different payload.
C5_ModifiedTokenNeverAltered ==
    (Decrypted /\ tok_mod # 0 /\ SameKey)
    => IF SameBytes THEN DecryptGave(tok_src[1].config) ELSE DecryptFailed

\* C5 witness: the ciphertext was replaced by that of another payload under
\* the same key and IV, and decrypt with the correct key refused it.
C5_Witness ==
    /\ Decrypted /\ tok_mod = 4 /\ SameKey
    /\ "v" \in DOMAIN tok[1][4]
    /\ "pt" \in DOMAIN tok[1][4].v
    /\ tok[1][4].v.k = dres.key
    /\ tok[1][4].v.iv = tok[1][3].v
    /\ DecryptFailed

-----------------------------------------------------------------------------
(* Properties of key derivation (SpecDerive) *)

\* C6: derive(p, s) is deterministic: two calls with the same password and
\* the same supplied salt return the same key, and return s itself as the
\* salt, whatever the environment and the earlier calls were.
C6_DeriveDeterministic ==
    \A i, j \in DOMAIN derived :
        (/\ derived[i].salt # None
         /\ derived[i].pw = derived[j].pw
         /\ derived[i].salt = derived[j].salt)
        => /\ derived[i].key = derived[j].key
           /\ derived[i].salt_out = derived[i].salt[1]

C6_Witness ==
    /\ Len(derived) = 2
    /\ derived[1].salt # None
    /\ derived[1].pw = derived[2].pw
    /\ derived[1].salt = derived[2].salt
    /\ derived[1].env # derived[2].env

\* C16: derive fails with WeakInputError exactly when the password is the
\* empty string: an empty password never yields a key, and every non-empty
\* password yields a key without error.
C16_EmptyPasswordRejected ==
    \A i \in DOMAIN derived :
        IF derived[i].pw = ""
        THEN ~derived[i].out.ok /\ derived[i].out.value = None
        ELSE derived[i].out.ok /\ derived[i].out.value[1][1] = derived[i].key

-----------------------------------------------------------------------------
(* Properties of the integrity check (SpecVerify) *)

Verified == vres.op = "verify"
\* The signature under test is the one last made by sign.
SignedSig == signed # None /\ vres.sig = signed[1].sig
\* Python's == on two dicts.
SameDict(a, b) == Items(a) = Items(b)
\* b is a with the value of exactly one key changed.
OneValueChanged(a, b) ==
    /\ {it[1] : it \in Items(a)} = {it[1] : it \in Items(b)}
    /\ Cardinality(Items(a) \ Items(b)) = 1

\* C17 as claimed: for every payload P and secrets s # s2,
\* verify(P, sign(P, s), s) is true, verify(P, sign(P, s), s2) is false, and
\* verify(P2, sign(P, s), s) is false for every P2 obtained from P by
\* changing one value.  (The secret of verify is DATA_INTEGRITY_KEY.)
C17_SignVerify ==
    (Verified /\ SignedSig /\ vres.key # None /\ OrderedSerializable(vres.data)) =>
        LET P == signed[1].data
            s == signed[1].secret
        IN  /\ (SameDict(vres.data, P) /\ vres.key = Some(s))
                 => vres.out = Returned(TRUE)
            /\ (SameDict(vres.data, P) /\ vres.key # Some(s))
                 => vres.out = Returned(FALSE)
            /\ (OneValueChanged(P, vres.data) /\ vres.key = Some(s))
                 => vres.out = Returned(FALSE)

\* C17 as amended: the same for non-empty secrets s # s2; with an empty
\* secret configured verify raises and returns neither true nor false.
C17_SignVerifyNonEmpty ==
    (Verified /\ SignedSig /\ vres.key # None /\ OrderedSerializable(vres.data)) =>
        LET P == signed[1].data
            s == signed[1].secret
        IN  IF Truthy(vres.key)
            THEN /\ (SameDict(vres.data, P) /\ vres.key = Some(s))
                      => vres.out = Returned(TRUE)
                 /\ (SameDict(vres.data, P) /\ vres.key # Some(s))
                      => vres.out = Returned(FALSE)
                 /\ (OneValueChanged(P, vres.data) /\ vres.key = Some(s))
                      => vres.out = Returned(FALSE)
            ELSE ~vres.out.ok /\ vres.out.value = None

\* C17 witness: a payload of two items signed under s1, one value changed,
\* verified under s1 against the original signature, and refused.
C17_Witness ==
    /\ Verified /\ SignedSig
    /\ signed[1].secret = "s1" /\ vres.key = Some("s1")
    /\ Len(signed[1].data) = 2
    /\ OneValueChanged(signed[1].data, vres.data)
    /\ vres.out = Returned(FALSE)

\* C18: the signature depends only on the payload's content, not on key
\* insertion order: two payloads with the same keys and values built in
\* different orders get the same signature, so a signature made for one
\* verifies for the other.
C18_OrderIndependent ==
    (Verified /\ signed # None /\ SameDict(vres.data, signed[1].data)) =>
        /\ sign(vres.data, signed[1].secret) = signed[1].sig
        /\ (SignedSig /\ Truthy(vres.key) /\ vres.key = Some(signed[1].secret))
             => vres.out = Returned(TRUE)

C18_Witness ==
    /\ Verified /\ SignedSig
    /\ SameDict(vres.data, signed[1].data)
    /\ vres.data # signed[1].data
    /\ vres.data[1][1] = "b"
    /\ vres.out = Returned(TRUE)

\* C19: when no integrity secret is configured at call time
\* (DATA_INTEGRITY_KEY unset or empty), verify fails with MissingSecretError
\* for every payload and signature; it never returns true or false.
C19_NoSecretFails ==
    (Verified /\ ~Truthy(vres.key))
    => vres.out = Raised("SecureDataError", NoIntegrityKey)

\* C19 witness: the environment lost the secret between sign and verify;
\* the payload and signature would verify under it.
C19_Witness ==
    /\ Verified /\ SignedSig /\ vres.key = None
    /\ signed[1].secret = "s1"
    /\ vres.data = signed[1].data
    /\ ~vres.out.ok

-----------------------------------------------------------------------------
(* Properties of redaction (SpecSanitize) *)

\* The key contains, case-insensitively, a term of the sensitive vocabulary.
SensitiveKey(key) == \E field \in sensitive_fields : Contains(field, Lower(key))

\* out is the masked form of the string value: the same length, all '*'
\* when the length is at most 4, otherwise the first two and last two
\* characters unchanged and every character between them '*'.
MaskedForm(value, out) ==
    /\ out.t = "str"
    /\ Len(out.c) = Len(value.c)
    /\ \A i \in 1..Len(value.c) :
          out.c[i] = IF Len(value.c) <= 4 THEN "*"
                     ELSE IF i <= 2 \/ i > Len(value.c) - 2 THEN value.c[i]
                     ELSE "*"

-----------------------------------------------------------------------------
(* Properties of failure reporting (SpecErr) *)

Causes == {"missing secret", "missing salt", "no vault", "malformed token",
           "failed authentication", "unserializable payload"}

\* C11: every failure of save, load, decrypt and verify reaches the
\* immediate caller as a typed error whose kind identifies the cause: the
\* causes missing secret, missing salt, no vault, malformed token, failed
\* authentication and unserializable payload each map to a different error
\* kind (the class of the exception the caller catches), and no failure is
\* turned into a normal return value.
C11_KindIdentifiesCause ==
    /\ \A i \in DOMAIN calls :
          calls[i].sit \in Causes => (~calls[i].out.ok /\ calls[i].out.value = None)
    /\ \A i, j \in DOMAIN calls :
          (/\ calls[i].sit \in Causes /\ calls[j].sit \in Causes
           /\ calls[i].sit # calls[j].sit)
          => calls[i].out.exc # calls[j].out.exc

-----------------------------------------------------------------------------
(* Properties of the statement-by-statement vault (SpecSaveSteps, SpecRace) *)

SaveFailed == sv.pc = "done" /\ ~sv.out.ok

\* C12: save writes the salt file before the token file; if save fails at
\* any step, at most one of the two target files has been modified, and the
\* disk never holds a token written by this save next to the salt of a
\* previous save.
C12_FailedSaveOneFile ==
    /\ "enc" \in sv.wrote => "salt" \in sv.wrote
    /\ SaveFailed => Cardinality(sv.wrote \cap {"salt", "enc"}) <= 1
    /\ gens.enc # 0 => (gens.salt # 0 /\ gens.salt <= gens.enc)

\* The load_config call has ended after reading both files of the vault.
LoadReadBoth == ld.pc = "done" /\ ld.enc_gen # 0

\* C14: a load that runs concurrently with a save on the same path (no
\* locking) can read the salt written by the new save together with the
\* token of the previous save, and can also read the previous salt together
\* with the new token.  Both are reached (C14_Witness); what holds of every
\* run: a load reads an older salt with a newer token only when the save
\* took a step between its two reads, and a load that read a mixed pair ends
\* with a payload or with InvalidToken.
C14_MixedReads ==
    /\ (LoadReadBoth /\ ld.salt_gen > ld.enc_gen) => ld.moved
    /\ (LoadReadBoth /\ ld.salt_gen # ld.enc_gen)
          => (ld.out.ok \/ ld.out.cause = "InvalidToken")

\* C14 witness: loads have read both mixed pairs while a save was running;
\* the last one read the salt of the save before with the token of the
\* latest save, and failed.
C14_Witness ==
    /\ seen = {"new salt, old token", "old salt, new token"}
    /\ LoadReadBoth /\ ld.salt_gen = 2 /\ ld.enc_gen = 1
    /\ ld.out = Raised("ConfigError", "InvalidToken")

-----------------------------------------------------------------------------
(* Properties of redaction on nested payloads (SpecRedact) *)

Sanitized == san.op \in {"sanitize", "again"}

\* out relates to the dict d as the result of sanitize must: the same keys;
\* a dict value gives a dict that relates to it in the same way; a string
\* under a sensitive key gives its masked form; any other value is returned
\* as it is.
RECURSIVE Framed(_, _)
Framed(d, out) ==
    /\ DOMAIN out = DOMAIN d
    /\ \A k \in DOMAIN d :
          IF d[k].t = "dict" THEN out[k].t = "dict" /\ Framed(d[k].d, out[k].d)
          ELSE IF d[k].t = "str" /\ SensitiveKey(k) THEN MaskedForm(d[k], out[k])
          ELSE out[k] = d[k]

\* C21: sanitize keeps the key set of every dict at every depth, returns
\* unchanged every value that is neither a dict nor a string under a
\* sensitive key, and masks a sensitive string in a nested dict of any depth
\* as it masks one at the top level.
C21_FrameAtEveryDepth == Sanitized => Framed(san.data, san.out)

\* The value found in dict d by following the keys of path.
RECURSIVE At(_, _)
At(d, path) ==
    IF Len(path) = 1 THEN d[path[1]] ELSE At(d[path[1]].d, Tail(path))

\* C21 witness: {"name": {"items": {"name": {"password": "abcdefgh"}}}} came
\* back with "ab****gh" at the same place, three dicts below the top.
C21_Witness ==
    /\ Sanitized
    /\ san.data = OneItem(<<"n", "a", "m", "e">>, PyDict(OneItem(<<"i", "t", "e", "m", "s">>, PyDict(OneItem(<<"n", "a", "m", "e">>,
                      PyDict(OneItem(<<"p", "a", "s", "s", "w", "o", "r", "d">>, PyStr(<<"a", "b", "c", "d", "e", "f", "g", "h">>))))))))
    /\ At(san.out, <<<<"n", "a", "m", "e">>, <<"i", "t", "e", "m", "s">>, <<"n", "a", "m", "e">>, <<"p", "a", "s", "s", "w", "o", "r", "d">>>>) = PyStr(<<"a", "b", "*", "*", "*", "*", "g", "h">>)

\* C28: sanitize is idempotent: sanitize(sanitize(P)) = sanitize(P).
C28_Idempotent == (san.op = "again") => san.again = san.out

\* C28 witness: the second call was given {"password": "ab****gh"}, the
\* result of the first on {"password": "abcdefgh"}, and returned the same.
C28_Witness ==
    /\ san.op = "again"
    /\ san.data = OneItem(<<"p", "a", "s", "s", "w", "o", "r", "d">>, PyStr(<<"a", "b", "c", "d", "e", "f", "g", "h">>))
    /\ san.out = OneItem(<<"p", "a", "s", "s", "w", "o", "r", "d">>, PyStr(<<"a", "b", "*", "*", "*", "*", "g", "h">>))
    /\ san.again = OneItem(<<"p", "a", "s", "s", "w", "o", "r", "d">>, PyStr(<<"a", "b", "*", "*", "*", "*", "g", "h">>))

\* C29: sanitize does not descend into lists: a list value is returned
\* unchanged, a dict that is its element with it, so a string under a
\* sensitive key of that dict is found unmasked in the result.
C29_ListsNotDescended ==
    Sanitized =>
        \A k \in DOMAIN san.data :
            (san.data[k].t = "list") => san.out[k] = san.data[k]

\* C29 witness: {"items": [{"password": "abcdefgh"}]} came back with
\* "abcdefgh" under "password".
C29_Witness ==
    /\ Sanitized
    /\ san.data = OneItem(<<"i", "t", "e", "m", "s">>, PyList(<<PyDict(OneItem(<<"p", "a", "s", "s", "w", "o", "r", "d">>, PyStr(<<"a", "b", "c", "d", "e", "f", "g", "h">>)))>>))
    /\ san.out[<<"i", "t", "e", "m", "s">>].l[1].d[<<"p", "a", "s", "s", "w", "o", "r", "d">>] = PyStr(<<"a", "b", "c", "d", "e", "f", "g", "h">>)

-----------------------------------------------------------------------------
(* Properties of sanitize_dict on objects (SpecWalk, SpecWalkFair) *)

\* The objects of the payload are those the heap held when the call began.
PayloadObjects == 1..Len(wk.before)

\* The dicts of the result: the one returned and those stored in them.
RECURSIVE ResultDicts(_, _)
ResultDicts(h, a) ==
    {a} \cup UNION {ResultDicts(h, h[a].items[i][2].a) :
                       i \in {j \in DOMAIN h[a].items : IsDict(h, h[a].items[j][2])}}

\* C22: sanitize never mutates its input.  While the call runs, when it has
\* returned and when secure_log has stored its timestamp in the result, the
\* payload and every dict and list in it hold the items they held before
\* the call; the dict returned and the dicts stored in it are new objects,
\* none of them an object of the payload.
C22_InputNotMutated ==
    (wk.pc # "idle") =>
        /\ \A a \in PayloadObjects : heap[a] = wk.before[a]
        /\ (wk.out # 0) => ResultDicts(heap, wk.out) \cap PayloadObjects = {}

\* C22 witness: secure_log was called with {"id": 1, "password":
\* {"password": "abcdefgh"}}; the result holds "ab****gh" and a timestamp,
\* the payload holds "abcdefgh" and no timestamp.
C22_Witness ==
    /\ wk.pc = "done" /\ wk.via = "secure_log"
    /\ wk.before = <<DictObj(<<<<<<"i", "d">>, JInt(1)>>, <<<<"p", "a", "s", "s", "w", "o", "r", "d">>, Ref(2)>>>>),
                     DictObj(<<<<<<"p", "a", "s", "s", "w", "o", "r", "d">>, PyStr(<<"a", "b", "c", "d", "e", "f", "g", "h">>)>>>>)>>
    /\ Deref(heap, Ref(wk.data)) =
          PyDict(TwoItems(<<"i", "d">>, JInt(1), <<"p", "a", "s", "s", "w", "o", "r", "d">>,
                          PyDict(OneItem(<<"p", "a", "s", "s", "w", "o", "r", "d">>, PyStr(<<"a", "b", "c", "d", "e", "f", "g", "h">>)))))
    /\ Deref(heap, Ref(wk.out)).d[<<"p", "a", "s", "s", "w", "o", "r", "d">>] =
          PyDict(OneItem(<<"p", "a", "s", "s", "w", "o", "r", "d">>, PyStr(<<"a", "b", "*", "*", "*", "*", "g", "h">>)))
    /\ <<"t", "i", "m", "e", "s", "t", "a", "m", "p">> \in DOMAIN Deref(heap, Ref(wk.out)).d

\* The number of entries of dict a from its i-th item on, the entries of
\* the dicts nested in them included.
RECURSIVE Entries(_, _, _)
Entries(h, a, i) ==
    IF i > Len(h[a].items) THEN 0
    ELSE 1 + (IF IsDict(h, h[a].items[i][2]) THEN Entries(h, h[a].items[i][2].a, 1) ELSE 0)
           + Entries(h, a, i + 1)

\* The loop has run at most once per entry of the payload, and no dict has
\* been entered twice.
WalkBounded ==
    /\ wk.steps <= Entries(wk.before, 1, 1)
    /\ \A i, j \in DOMAIN wk.visits : wk.visits[i] = wk.visits[j] => i = j

\* C23: sanitize terminates on every finite acyclic payload: a call that
\* has started returns, each nested dict is entered once, and the number of
\* loop iterations never exceeds the number of entries of the payload.
C23_Terminates ==
    /\ []((wk.pc # "idle") => WalkBounded)
    /\ (wk.pc = "run") ~> (wk.out # 0)

\* C23 witness: a payload of three dicts, one inside the other, with four
\* entries, was sanitized in four iterations, each dict entered once.
C23_Witness ==
    /\ wk.pc = "done"
    /\ Len(wk.before) = 3 /\ wk.before[2].t = "dict"
    /\ Entries(wk.before, 1, 1) = 4 /\ wk.steps = 4
    /\ wk.visits = <<1, 2, 3>>

-----------------------------------------------------------------------------
(* Properties of one save_config overlapping one load_config (SpecOverlap) *)

OvLoaded == ov.ld.pc = "done"
OvSaved == ov.sv.pc = "done"

\* C24: one load running with one save on a path that holds a valid vault
\* ends, in every interleaving, with the payload stored before the save,
\* with the payload being saved, or with an error; load returns no other
\* payload.
C24_OldNewOrError ==
    OvLoaded =>
        \/ ~ov.ld.out.ok /\ ov.ld.out.exc \in {"ConfigError", "SecureDataError"}
        \/ ov.ld.out = Returned(OvPrior)
        \/ ov.sv.pc # "idle" /\ ov.ld.out = Returned(ov.sv.config)

\* C24 witness: load started while the save was between its writes, read
\* the new salt and then the new token, and returned the payload being
\* saved, the save not yet ended.
C24_Witness ==
    /\ OvLoaded /\ ~ov.ld.late /\ ov.sv.pc = "remove"
    /\ ov.sv.config = [a |-> JStr("1")]
    /\ ov.ld.salt = Some(2)
    /\ ov.ld.out = Returned([a |-> JStr("1")])

\* save_config with a password has ended with an exception.
OvSaveFailed ==
    ov.mod = "config_utils" /\ OvSaved /\ ~ov.sv.out.ok /\ Truthy(ov.sv.pw)

\* C25: when save_config fails after writing {path}.salt and before writing
\* {path}.enc (the dict cannot be serialized, the token file cannot be
\* opened), the vault is left as the new salt with the old token, and a load
\* that starts afterwards with the previous password fails, where the new
\* salt differs from the old one, instead of returning the previous payload.
C25_FailedSaveBreaksVault ==
    OvSaveFailed =>
        /\ salt_file = Some(ov.sv.salt) /\ enc_file = Some(OvPriorToken)
        /\ (OvLoaded /\ ov.ld.late /\ ov.ld.pw = Some("pw") /\ ov.sv.salt # 1)
              => ov.ld.out = Raised("ConfigError", "InvalidToken")

\* C25 witness: save_config({"a": set()}, path, "other") wrote the salt 2
\* and raised TypeError; load_config with CONFIG_PASSWORD = "pw" then read
\* the salt 2 with the token of before and failed.
C25_Witness ==
    /\ OvSaveFailed /\ ov.sv.out.cause = "TypeError" /\ ov.sv.config = [a |-> PySet]
    /\ salt_file = Some(2) /\ enc_file = Some(OvPriorToken)
    /\ OvLoaded /\ ov.ld.late /\ ov.ld.pw = Some("pw") /\ ov.ld.salt = Some(2)
    /\ ov.ld.out = Raised("ConfigError", "InvalidToken")

-----------------------------------------------------------------------------
(* Properties of save_config without a password (Spec) *)

\* The step is a save_config call without a password (None or "").
PlainSaveStep == res'.op = "save" /\ ~Truthy(res'.pw)

\* The last call of save_config that returned had no password, and only
\* load_config and the environment have acted since.
AfterPlainSave == last_save # None /\ ~Truthy(last_save[1].pw)

\* The files hold a vault that opens under the password pw and gives config.
VaultHolds(pw, config) ==
    /\ salt_file # None /\ enc_file # None
    /\ decrypt_config(enc_file[1], PBKDF2(pw, salt_file[1])) = Returned(config)

\* C26: save_config without a password leaves {path}.enc and {path}.salt
\* as they are and, when it returns, has written the payload as plaintext to
\* {path}; where an encrypted vault exists, the next load_config returns the
\* payload of that vault, or fails (always so when CONFIG_PASSWORD is not
\* set), and never returns the payload just saved in place of the vault's.
C26_PlainSaveIsShadowed ==
    /\ [][PlainSaveStep =>
             /\ salt_file' = salt_file /\ enc_file' = enc_file
             /\ res'.out.ok => plain_file' = Some(JsonDumps(last_save'[1].config))]_vars
    /\ [](\A pw \in NonEmptyPasswords, older \in VaultConfigs :
             (Loaded /\ AfterPlainSave /\ VaultHolds(pw, older)) =>
                 /\ res.out.ok => res.out = Returned(older)
                 /\ res.pw = Some(pw) => res.out = Returned(older)
                 /\ ~Truthy(res.pw) => Failed(MissingSecret))

\* C26 witness: the vault holds {"a": 1} under "pw"; save_config({"a": "1"},
\* path, None) wrote {path}; load_config with CONFIG_PASSWORD = "pw"
\* returned {"a": 1}.
C26_Witness ==
    /\ Loaded /\ last_save = Some([config |-> [a |-> JStr("1")], pw |-> None])
    /\ plain_file = Some(JsonDumps([a |-> JStr("1")]))
    /\ VaultHolds("pw", [a |-> JInt(1)])
    /\ res.pw = Some("pw") /\ res.out = Returned([a |-> JInt(1)])

-----------------------------------------------------------------------------
(* Properties of the reading operations (SpecReadOnly) *)

ConfigFiles == <<salt_file, enc_file, plain_file>>
DataFiles == <<sd_salt, sd_data>>

\* The step is a call of verify_data_integrity.
VerifyStep == vres' # vres /\ vres'.op = "verify"

\* C27: load and verify are read-only.  A call of load_config leaves the
\* salt file, the token file and the plaintext file as they were, whether it
\* returns or raises; so does secure_load with its two files; a call of
\* verify_data_integrity leaves all of them as they were, and called again
\* with the same arguments it gives the same result whether or not the files
\* of a vault exist.
C27_ReadOnly ==
    /\ [][(res'.op = "load") => ConfigFiles' = ConfigFiles]_vars
    /\ [][(sd_res'.op = "load") => DataFiles' = DataFiles]_vars
    /\ [][VerifyStep => ConfigFiles' = ConfigFiles /\ DataFiles' = DataFiles]_vars
    /\ []((vres.op = "verify" /\ vres.n = 2) => vres.out = vres.first[1].out)

\* C27 witness: verify_data_integrity returned True before any file
\* existed and True again with a vault on disk, and load_config has returned
\* the payload of that vault, whose three files are as save_config left
\* them.
C27_Witness ==
    /\ vres.op = "verify" /\ vres.n = 2
    /\ ~vres.first[1].vault /\ vres.vault
    /\ vres.first[1].out = Returned(TRUE) /\ vres.out = Returned(TRUE)
    /\ Loaded /\ res.out.ok /\ "enc" \in res.reads
    /\ salt_file # None /\ enc_file # None /\ plain_file = None

-----------------------------------------------------------------------------
(* Properties of make_api_request (SpecApiFair) *)

ApiDone == api.pc = "done"
\* The request ended in status 200 with a JSON body.
Ok200(o) == o.kind = "response" /\ o.status = 200 /\ o.json # None
\* The request ended in status 429 or in an exception (of requests.get or
\* of response.json()).
Retried(o) ==
    \/ o.kind = "exception"
    \/ o.kind = "response" /\ o.status = 429
    \/ o.kind = "response" /\ o.status = 200 /\ o.json = None
LastRequest == api.requests[Len(api.requests)]

====
